---- MODULE Spec2Model ----
(***************************************************************************)
(* Connexio: the PTY session manager (src-tauri/src/pty/manager.rs) and    *)
(* the csh shell (src-tauri/src/csh): its command history, lexer and       *)
(* parser, executor and read-eval loop, environment and line editor.       *)
(* The manager is modelled twice: call by call, each call one step, and    *)
(* lock by lock for the calls of several threads.  The shell is run over   *)
(* piped input, over a command string (-c) and over a script file; the     *)
(* line editor over its history keys and over the keys of the read loop.   *)
(*                                                                         *)
(* Text is modelled as the sequence of its UTF-8 bytes: a Rust String is a *)
(* byte sequence known to be valid UTF-8, and a Vec<u8> is any byte        *)
(* sequence.  None of an Option<usize> is NoneUsize.                      *)
(***************************************************************************)
EXTENDS Integers, Sequences, FiniteSets, TLC

VARIABLES
    \* ---- PtyManager ----
    sessions,     \* HashMap<String, PtySession>: id -> [shell_type, working_directory]
    should_stop,  \* the Arc<Mutex<bool>> of each spawned session (outlives the record)
    wpc,          \* position of each session's reader thread
    carryover,    \* the reader thread's carryover Vec<u8>
    child,        \* the child process behind each PTY: "none", "running", "exited"
    reads,        \* the buffers reader.read has returned so far, in order (history)
    outputs,      \* pty-output payloads emitted per session, in emission order
    ended,        \* how the reader left its loop: "no", "eof", "error", "stop"
    exits,        \* pty-exit payloads (exit codes) emitted per session
    ret,          \* the last manager call and what it returned
    map_lock,     \* the thread that holds the Mutex of the sessions map
    stop_lock,    \* the thread that holds the Mutex of each session's stop flag
    call,         \* the manager call each calling thread is in and its position
    \* ---- History ----
    entries,      \* VecDeque<String>
    max_size,     \* usize
    position,     \* usize
    file_path,    \* Option<PathBuf>: TRUE when Some
    file,         \* text of the history file on disk, NoFile when it cannot be opened
    hret,         \* the last History call and what it returned
    \* ---- Parser ----
    input,        \* Lexer: the characters not yet read
    peeked_token, \* Lexer: Option<Token>, {} when None
    command_line, \* the CommandLine parse_command_line is building
    seen_ops,     \* the && || ; tokens consumed and the pipelines parsed after them (history)
    ppc,          \* position of the parser: "idle", "start", "loop", "ok", "err"
    \* ---- Shell and Executor ----
    script,       \* stdin of the shell, the aliases and the file it starts with (constant)
    cfg_windows,    \* cfg(windows) of the build (constant)
    line_no,      \* the line of stdin read_line returns next
    spc,          \* position of the shell: "idle", "read", "exec", "done", "panic"
    cmd_line,     \* the CommandLine Executor::execute is executing
    idx,          \* index (from 1) of the pipeline the loop of execute is at
    last_status,  \* execute's last_status.code
    last_exit_code, \* Environment.last_exit_code
    aliases,      \* Environment.aliases: set of [name, value]
    files,        \* the files on disk: target -> text, NoFile when there is none
    last_run,     \* what the shell did last (history)
    ran,          \* the pipelines of the line executed so far and their codes (history)
    file_log,     \* what every pipeline executed wrote to its output file, in order (history)
    mode,         \* what main runs: "stdin" (piped input), "-c" (a command string), "script" (a file)
    line_status,  \* the ExitStatus code execute_command and run_script hold for the last line
    exit_status,  \* Option<i32>: what main has returned, {} when it has not
    \* ---- Environment ----
    local_vars,   \* HashMap<String, String>
    exported_vars, \* HashMap<String, String>
    process_env,  \* the environment of the process (std::env)
    cwd,          \* Environment.cwd
    process_cwd,  \* the current directory of the process
    eret,         \* the last Environment call
    \* ---- LineEditor ----
    ed_history,   \* the entries of the History handed to readline (constant)
    buffer,       \* String
    history_index, \* i32: -1 is the line being edited
    saved_input,  \* String
    last_key,     \* the last key and the editor before it (history)
    nav_from,     \* the buffer when Up was last pressed at index -1 (history)
    ups,          \* Up keys in a row since then (history)
    downs,        \* Down keys in a row after them (history)
    presses,      \* Up and Down keys pressed (history)
    cursor,       \* usize: character index into buffer
    completions,  \* Vec<Completion>: the texts of the candidates
    completion_index, \* usize
    in_completion, \* bool
    escape_state, \* EscapeState: "Normal", "Escape", "Csi", "CsiParam"
    escape_params, \* String: the digits and semicolons of the escape sequence
    raw_mode,     \* whether the terminal is in raw mode
    rpc,          \* position of readline: "idle", "new", "crossterm", "raw", "returned", "panicked"
    completer_env, \* what the Completer finds: command names and directory entries (constant)
    key_log       \* the last key of the read loop and what it made readline do (history)

ptyVars  == <<sessions, should_stop, wpc, carryover, child, reads, outputs, ended, exits, ret>>
lockVars == <<map_lock, stop_lock, call>>
histVars == <<entries, max_size, position, file_path, file, hret>>
parserVars == <<input, peeked_token, command_line, seen_ops, ppc>>
shellVars == <<script, cfg_windows, line_no, spc, cmd_line, idx, last_status, last_exit_code,
               aliases, files, last_run, ran, file_log, mode, line_status, exit_status>>
envVars == <<local_vars, exported_vars, process_env, cwd, process_cwd, eret>>
readlineVars == <<completions, completion_index, in_completion, escape_state, escape_params,
                  raw_mode, rpc,
                  completer_env, key_log>>
editorVars == <<ed_history, buffer, history_index, saved_input, last_key, nav_from,
                ups, downs, presses, cursor, readlineVars>>
nonMgrVars    == <<histVars, parserVars, shellVars, envVars, editorVars>>
nonPtyVars    == <<lockVars, nonMgrVars>>
nonHistVars   == <<ptyVars, lockVars, parserVars, shellVars, envVars, editorVars>>
nonParserVars == <<ptyVars, lockVars, histVars, shellVars, envVars, editorVars>>
nonShellVars  == <<ptyVars, lockVars, histVars, parserVars, envVars, editorVars>>
nonEnvVars    == <<ptyVars, lockVars, histVars, parserVars, shellVars, editorVars>>
nonEditorVars == <<ptyVars, lockVars, histVars, parserVars, shellVars, envVars>>
vars     == <<ptyVars, lockVars, histVars, parserVars, shellVars, envVars, editorVars>>

----------------------------------------------------------------------------
(* Bounds of the model *)

\* session ids the model can hand out (each spawn takes a fresh one)
MaxSessions == 2
\* total bytes one child writes in the reader specification
MaxStreamLen == 4

----------------------------------------------------------------------------
(* Bytes *)

BEL        == 7
ESC        == 27
LetterA    == 65
LBracket   == 91
Backslash  == 92
RBracket   == 93
Cont94     == 148
LeadE2     == 226

\* The bytes children write in the model, in two families.  Text with escape
\* sequences: BEL, ESC, 'A', '[', '\', ']'.  Text with multibyte characters:
\* ESC, 'A', '[' and the bytes of U+2514 (E2 94 94); a lone 0x94, or a 0xE2
\* followed by ASCII, is invalid UTF-8.
EscAlphabet  == {BEL, ESC, LetterA, LBracket, Backslash, RBracket}
Utf8Alphabet == {ESC, LetterA, LBracket, Cont94, LeadE2}

\* "A" E2 9C | 94 "B": U+2714 split across two reads
ExampleStream == <<65, 226, 156, 148, 66>>

NoneUsize == -1

Min(S) == CHOOSE x \in S : \A y \in S : x <= y
Max(S) == CHOOSE x \in S : \A y \in S : x >= y

\* s[from..] with a 0-based byte offset, as Rust slices
SliceFrom(s, from) == SubSeq(s, from + 1, Len(s))
\* s[..to] with a 0-based exclusive end
SliceTo(s, to) == SubSeq(s, 1, to)

----------------------------------------------------------------------------
(* std::str::from_utf8 and String::from_utf8_lossy, as the Rust standard   *)
(* library computes them                                                   *)

IsContinuation(b) == b >= 128 /\ b <= 191

\* core::str::validations::UTF8_CHAR_WIDTH
Utf8CharWidth(b) ==
    IF b < 128 THEN 1
    ELSE IF b >= 194 /\ b <= 223 THEN 2
    ELSE IF b >= 224 /\ b <= 239 THEN 3
    ELSE IF b >= 240 /\ b <= 244 THEN 4
    ELSE 0

\* the second byte a 3- or 4-byte sequence may have after its first byte
SecondByteOk(first, second) ==
    CASE first = 224 -> second >= 160 /\ second <= 191
      [] first = 237 -> second >= 128 /\ second <= 159
      [] first = 240 -> second >= 144 /\ second <= 191
      [] first = 244 -> second >= 128 /\ second <= 143
      [] OTHER       -> IsContinuation(second)

Utf8Err(upto, len) == [ok |-> FALSE, valid_up_to |-> upto, error_len |-> len]

\* Scan from the 1-based index i.  error_len is NoneUsize when the input ends
\* inside a sequence (Utf8Error::error_len() = None).
RECURSIVE Utf8Scan(_, _)
Utf8Scan(bytes, i) ==
    IF i > Len(bytes)
    THEN [ok |-> TRUE, valid_up_to |-> Len(bytes), error_len |-> NoneUsize]
    ELSE LET w == Utf8CharWidth(bytes[i])
             n == Len(bytes)
         IN  CASE w = 1 -> Utf8Scan(bytes, i + 1)
               [] w = 0 -> Utf8Err(i - 1, 1)
               [] w = 2 ->
                    IF i + 1 > n THEN Utf8Err(i - 1, NoneUsize)
                    ELSE IF ~IsContinuation(bytes[i + 1]) THEN Utf8Err(i - 1, 1)
                    ELSE Utf8Scan(bytes, i + 2)
               [] w = 3 ->
                    IF i + 1 > n THEN Utf8Err(i - 1, NoneUsize)
                    ELSE IF ~SecondByteOk(bytes[i], bytes[i + 1]) THEN Utf8Err(i - 1, 1)
                    ELSE IF i + 2 > n THEN Utf8Err(i - 1, NoneUsize)
                    ELSE IF ~IsContinuation(bytes[i + 2]) THEN Utf8Err(i - 1, 2)
                    ELSE Utf8Scan(bytes, i + 3)
               [] w = 4 ->
                    IF i + 1 > n THEN Utf8Err(i - 1, NoneUsize)
                    ELSE IF ~SecondByteOk(bytes[i], bytes[i + 1]) THEN Utf8Err(i - 1, 1)
                    ELSE IF i + 2 > n THEN Utf8Err(i - 1, NoneUsize)
                    ELSE IF ~IsContinuation(bytes[i + 2]) THEN Utf8Err(i - 1, 2)
                    ELSE IF i + 3 > n THEN Utf8Err(i - 1, NoneUsize)
                    ELSE IF ~IsContinuation(bytes[i + 3]) THEN Utf8Err(i - 1, 3)
                    ELSE Utf8Scan(bytes, i + 4)

from_utf8(bytes) == Utf8Scan(bytes, 1)

\* U+FFFD REPLACEMENT CHARACTER, in UTF-8
Replacement == <<239, 191, 189>>

\* Each maximal invalid part becomes one U+FFFD; an incomplete tail becomes one.
RECURSIVE from_utf8_lossy(_)
from_utf8_lossy(bytes) ==
    LET r == from_utf8(bytes)
    IN  IF r.ok THEN bytes
        ELSE SliceTo(bytes, r.valid_up_to) \o Replacement \o
             (IF r.error_len = NoneUsize THEN <<>>
              ELSE from_utf8_lossy(SliceFrom(bytes, r.valid_up_to + r.error_len)))

----------------------------------------------------------------------------
(* manager.rs: the two boundary functions *)

\* find_utf8_boundary without the search for the boundary: the whole buffer
find_utf8_boundary_whole(bytes) == Len(bytes)

find_utf8_boundary(bytes) ==
    IF bytes = <<>> THEN 0
    ELSE LET r == from_utf8(bytes)
         IN  IF r.ok THEN Len(bytes)
             ELSE IF r.error_len = NoneUsize THEN r.valid_up_to
             ELSE r.valid_up_to

is_ascii_alphabetic(b) == (b >= 65 /\ b <= 90) \/ (b >= 97 /\ b <= 122)
is_ascii_digit(b)      == b >= 48 /\ b <= 57

\* str::rfind(ch): 0-based offset of the last occurrence, NoneUsize when absent
rfind(data, ch) ==
    LET hits == {i \in 1..Len(data) : data[i] = ch}
    IN  IF hits = {} THEN NoneUsize ELSE Max(hits) - 1

\* str::contains for a two-byte pattern
ContainsPair(s, a, b) == \E i \in 1..(Len(s) - 1) : s[i] = a /\ s[i + 1] = b
ContainsByte(s, a)    == \E i \in 1..Len(s) : s[i] = a

IsCsiTerminator(b) == is_ascii_alphabetic(b) \/ b = 64 \/ b = 96 \/ b = 126

RECURSIVE find_incomplete_escape_sequence(_)
find_incomplete_escape_sequence(data) ==
    LET last_esc_pos == rfind(data, ESC)
    IN  IF last_esc_pos = NoneUsize THEN NoneUsize
        ELSE
        LET after_esc == SliceFrom(data, last_esc_pos)
            \* 0-based offsets i into bytes[2..] that hold a terminator
            terms == {i \in 0..(Len(after_esc) - 3) : IsCsiTerminator(after_esc[i + 3])}
        IN  IF Len(after_esc) = 1 THEN last_esc_pos
            ELSE IF after_esc[2] = LBracket THEN
                IF terms = {} THEN last_esc_pos
                ELSE LET seq_end == last_esc_pos + 2 + Min(terms) + 1
                     IN  IF seq_end < Len(data)
                         THEN LET p == find_incomplete_escape_sequence(SliceFrom(data, seq_end))
                              IN  IF p = NoneUsize THEN NoneUsize ELSE seq_end + p
                         ELSE NoneUsize
            ELSE IF after_esc[2] = RBracket THEN
                IF ContainsByte(after_esc, BEL) \/ ContainsPair(after_esc, ESC, Backslash)
                THEN NoneUsize
                ELSE last_esc_pos
            ELSE IF is_ascii_alphabetic(after_esc[2]) \/ is_ascii_digit(after_esc[2])
                    \/ after_esc[2] = 61 \/ after_esc[2] = 62 \/ after_esc[2] = 60
                THEN NoneUsize
            ELSE last_esc_pos

----------------------------------------------------------------------------
(* manager.rs: the reader thread's handling of one read *)

\* ReadOk forgetting the invalid tail whenever an escape sequence is carried
ReadOk_drops_remaining(carry, buf) ==
    LET combined == IF carry = <<>> THEN buf ELSE carry \o buf
        utf8_boundary == find_utf8_boundary(combined)
        valid_bytes == SliceTo(combined, utf8_boundary)
        remaining == SliceFrom(combined, utf8_boundary)
        data == IF from_utf8(valid_bytes).ok THEN valid_bytes
                ELSE from_utf8_lossy(valid_bytes)
        esc_pos == find_incomplete_escape_sequence(data)
    IN  IF utf8_boundary = 0 /\ Len(combined) < 6
        THEN [data_to_emit |-> <<>>, carryover |-> combined]
        ELSE IF esc_pos # NoneUsize
        THEN [data_to_emit |-> SliceTo(data, esc_pos),
              carryover |-> SliceFrom(data, esc_pos)]
        ELSE [data_to_emit |-> data, carryover |-> remaining]

\* The Ok(n) branch, with buf = buffer[..n].  data_to_emit is emitted as a
\* pty-output payload when it is not empty.
ReadOk(carry, buf) ==
    LET combined == IF carry = <<>> THEN buf ELSE carry \o buf
        utf8_boundary == find_utf8_boundary(combined)
        valid_bytes == SliceTo(combined, utf8_boundary)
        remaining == SliceFrom(combined, utf8_boundary)
        data == IF from_utf8(valid_bytes).ok THEN valid_bytes
                ELSE from_utf8_lossy(valid_bytes)
        esc_pos == find_incomplete_escape_sequence(data)
    IN  IF utf8_boundary = 0 /\ Len(combined) < 6
        THEN [data_to_emit |-> <<>>, carryover |-> combined]
        ELSE IF esc_pos # NoneUsize
        THEN [data_to_emit |-> SliceTo(data, esc_pos),
              carryover |-> SliceFrom(data, esc_pos) \o remaining]
        ELSE [data_to_emit |-> data, carryover |-> remaining]

\* app_handle.emit("pty-output", ..) of a payload onto a session's event list
EmitOutput(outs, data) == Append(outs, data)

----------------------------------------------------------------------------
(* PtyManager *)

Ids == 1..MaxSessions

\* PtySpawnConfig as far as the session record keeps it
Configs == {[shell_type |-> "PowerShell", working_directory |-> "None"],
            [shell_type |-> "Cmd", working_directory |-> "C:\\work"]}

\* The configuration the session numbered id is spawned with.  The manager
\* stores the configuration and hands it back, and never branches on it, so
\* one per session is enough; neighbouring sessions get different ones.
ConfigFor(id) ==
    CHOOSE c \in Configs : c.shell_type = (IF id % 2 = 1 THEN "PowerShell" ELSE "Cmd")

\* Uuid::new_v4(): an id no earlier spawn was given; the ids are handed out
\* in increasing order, which loses nothing because ids are only compared
FreshIds == LET unused == {id \in Ids : wpc[id] = "none"}
            IN  IF unused = {} THEN {} ELSE {Min(unused)}

Ret(op, id, ok, value) == [op |-> op, pty_id |-> id, ok |-> ok, value |-> value]

\* threads that call the manager at the same time
MaxCallers == 2

Callers == 1..MaxCallers

\* who holds a parking_lot::Mutex: nobody, a calling thread, a reader thread
Free        == <<"free", 0>>
Caller(c)   == <<"caller", c>>
Worker(id)  == <<"worker", id>>

\* a calling thread: the call it is in, the session the call is at, where
\* it is in the call, the sessions taken out of the map whose stop flag it
\* has still to set
InCall(op, id, pc, drained) == [op |-> op, pty_id |-> id, pc |-> pc, drained |-> drained]

NoCall == InCall("none", 0, "idle", {})

\* no thread is in a call and no Mutex is held
LocksFree ==
    /\ map_lock = Free
    /\ stop_lock = [id \in Ids |-> Free]
    /\ call = [c \in Callers |-> NoCall]

\* the manager has not been dropped
Live == ret.op # "drop"

InitPty ==
    /\ sessions = <<>>
    /\ should_stop = [id \in Ids |-> FALSE]
    /\ wpc = [id \in Ids |-> "none"]
    /\ carryover = [id \in Ids |-> <<>>]
    /\ child = [id \in Ids |-> "none"]
    /\ reads = [id \in Ids |-> <<>>]
    /\ outputs = [id \in Ids |-> <<>>]
    /\ ended = [id \in Ids |-> "no"]
    /\ exits = [id \in Ids |-> <<>>]
    /\ ret = Ret("new", 0, TRUE, {})
    /\ LocksFree

\* A map with one key removed / one key added
MapRemove(m, k) == [x \in DOMAIN m \ {k} |-> m[x]]
MapInsert(m, k, v) == [x \in DOMAIN m \cup {k} |-> IF x = k THEN v ELSE m[x]]

\* spawn() succeeding: the child runs, the record is stored, the reader starts
Spawn(id, config) ==
    /\ Live
    /\ id \in FreshIds
    /\ sessions' = MapInsert(sessions, id, config)
    /\ should_stop' = [should_stop EXCEPT ![id] = FALSE]
    /\ child' = [child EXCEPT ![id] = "running"]
    /\ wpc' = [wpc EXCEPT ![id] = "loop"]
    /\ carryover' = [carryover EXCEPT ![id] = <<>>]
    /\ ret' = Ret("spawn", id, TRUE, {})
    /\ UNCHANGED <<reads, outputs, ended, exits>>

\* spawn() failing at openpty, spawn_command, try_clone_reader or take_writer
SpawnFail ==
    /\ Live
    /\ ret' = Ret("spawn", 0, FALSE, {})
    /\ UNCHANGED <<sessions, should_stop, wpc, carryover, child, reads, outputs,
                   ended, exits>>

\* write(): io_ok is whether write_all and flush succeed
Write(id, io_ok) ==
    /\ Live
    /\ ret' = Ret("write", id, id \in DOMAIN sessions /\ io_ok, {})
    /\ UNCHANGED <<sessions, should_stop, wpc, carryover, child, reads, outputs,
                   ended, exits>>

\* resize(): io_ok is whether master.resize succeeds
Resize(id, io_ok) ==
    /\ Live
    /\ ret' = Ret("resize", id, id \in DOMAIN sessions /\ io_ok, {})
    /\ UNCHANGED <<sessions, should_stop, wpc, carryover, child, reads, outputs,
                   ended, exits>>

\* kill() setting the stop flag of a record it leaves in the map
KillEffect_keeps_record(id) ==
    IF id \in DOMAIN sessions
    THEN /\ sessions' = sessions
         /\ should_stop' = [should_stop EXCEPT ![id] = TRUE]
    ELSE UNCHANGED <<sessions, should_stop>>

\* sessions.remove(pty_id) and, when it was there, *should_stop.lock() = true
KillEffect(id) ==
    IF id \in DOMAIN sessions
    THEN /\ sessions' = MapRemove(sessions, id)
         /\ should_stop' = [should_stop EXCEPT ![id] = TRUE]
    ELSE UNCHANGED <<sessions, should_stop>>

\* kill() ends with Ok(()) whether or not the id was in the map
KillResult(id) == TRUE

Kill(id) ==
    /\ Live
    /\ KillEffect(id)
    /\ ret' = Ret("kill", id, KillResult(id), {})
    /\ UNCHANGED <<wpc, carryover, child, reads, outputs, ended, exits>>

PtyInfo(id) == [id |-> id, shell_type |-> sessions[id].shell_type,
                working_directory |-> sessions[id].working_directory, is_alive |-> TRUE]

\* what get_info returns: {} for None and {info} for Some(info)
get_info(id) == IF id \in DOMAIN sessions THEN {PtyInfo(id)} ELSE {}

\* what list_sessions returns
list_sessions == DOMAIN sessions

GetInfo(id) ==
    /\ Live
    /\ ret' = Ret("get_info", id, TRUE, get_info(id))
    /\ UNCHANGED <<sessions, should_stop, wpc, carryover, child, reads, outputs,
                   ended, exits>>

ListSessions ==
    /\ Live
    /\ ret' = Ret("list_sessions", 0, TRUE, list_sessions)
    /\ UNCHANGED <<sessions, should_stop, wpc, carryover, child, reads, outputs,
                   ended, exits>>

KillAllEffect ==
    /\ sessions' = <<>>
    /\ should_stop' = [id \in Ids |-> IF id \in DOMAIN sessions THEN TRUE ELSE should_stop[id]]

KillAll ==
    /\ Live
    /\ KillAllEffect
    /\ ret' = Ret("kill_all", 0, TRUE, {})
    /\ UNCHANGED <<wpc, carryover, child, reads, outputs, ended, exits>>

\* Drop for PtyManager: kill_all(), after which no call can be made
DropManager ==
    /\ Live
    /\ KillAllEffect
    /\ ret' = Ret("drop", 0, TRUE, {})
    /\ UNCHANGED <<wpc, carryover, child, reads, outputs, ended, exits>>

----------------------------------------------------------------------------
(* The reader thread of session id *)

RECURSIVE Flatten(_)
Flatten(ss) == IF ss = <<>> THEN <<>> ELSE Head(ss) \o Flatten(Tail(ss))

\* every byte the reader has read from the PTY so far
Written(id) == Flatten(reads[id])

\* the reader goes on to read whatever the flag says
WorkerPoll_ignores_flag(id) ==
    /\ wpc[id] = "loop"
    /\ wpc' = [wpc EXCEPT ![id] = "read"]
    /\ UNCHANGED <<sessions, should_stop, carryover, child, reads, outputs, ended, exits, ret>>

\* top of the loop: poll the stop flag
WorkerPoll(id) ==
    /\ wpc[id] = "loop"
    /\ IF should_stop[id]
       THEN /\ wpc' = [wpc EXCEPT ![id] = "wait"]
            /\ ended' = [ended EXCEPT ![id] = "stop"]
       ELSE /\ wpc' = [wpc EXCEPT ![id] = "read"]
            /\ UNCHANGED ended
    /\ UNCHANGED <<sessions, should_stop, carryover, child, reads, outputs, exits, ret>>

\* reader.read returns Ok(n), n > 0, with the bytes buf
WorkerReadData(id, buf) ==
    /\ wpc[id] = "read"
    /\ child[id] = "running"
    /\ buf # <<>>
    /\ LET r == ReadOk(carryover[id], buf)
       IN  /\ carryover' = [carryover EXCEPT ![id] = r.carryover]
           /\ outputs' = [outputs EXCEPT ![id] =
                            IF r.data_to_emit # <<>> THEN EmitOutput(@, r.data_to_emit)
                            ELSE @]
    /\ reads' = [reads EXCEPT ![id] = Append(@, buf)]
    /\ wpc' = [wpc EXCEPT ![id] = "loop"]
    /\ UNCHANGED <<sessions, should_stop, child, ended, exits, ret>>

\* reader.read returns Ok(0): the child has exited and its output is drained
WorkerReadEof(id) ==
    /\ wpc[id] = "read"
    /\ child[id] = "exited"
    /\ outputs' = [outputs EXCEPT ![id] =
                     IF carryover[id] # <<>> THEN EmitOutput(@, from_utf8_lossy(carryover[id]))
                     ELSE @]
    /\ ended' = [ended EXCEPT ![id] = "eof"]
    /\ wpc' = [wpc EXCEPT ![id] = "wait"]
    /\ UNCHANGED <<sessions, should_stop, carryover, child, reads, exits, ret>>

\* reader.read returns Err(WouldBlock): sleep 10 ms and go round again
WorkerReadWouldBlock(id) ==
    /\ wpc[id] = "read"
    /\ child[id] = "running"
    /\ wpc' = [wpc EXCEPT ![id] = "loop"]
    /\ UNCHANGED <<sessions, should_stop, carryover, child, reads, outputs,
                   ended, exits, ret>>

\* reader.read returns any other error: leave the loop
WorkerReadErr(id) ==
    /\ wpc[id] = "read"
    /\ ended' = [ended EXCEPT ![id] = "error"]
    /\ wpc' = [wpc EXCEPT ![id] = "wait"]
    /\ UNCHANGED <<sessions, should_stop, carryover, child, reads, outputs, exits, ret>>

\* after the loop: child.wait() returns once the child has exited, then the
\* pty-exit event is emitted; code is Some(status) or None
WorkerExit(id, code) ==
    /\ wpc[id] = "wait"
    /\ child[id] = "exited"
    /\ exits' = [exits EXCEPT ![id] = Append(@, code)]
    /\ wpc' = [wpc EXCEPT ![id] = "remove"]
    /\ UNCHANGED <<sessions, should_stop, carryover, child, reads, outputs,
                   ended, ret>>

\* sessions_ref.lock().remove(&pty_id), then the thread ends
WorkerRemove(id) ==
    /\ wpc[id] = "remove"
    /\ sessions' = MapRemove(sessions, id)
    /\ wpc' = [wpc EXCEPT ![id] = "done"]
    /\ UNCHANGED <<should_stop, carryover, child, reads, outputs, ended, exits, ret>>

\* the child process ends and the slave side of the PTY closes
ChildExit(id) ==
    /\ child[id] = "running"
    /\ child' = [child EXCEPT ![id] = "exited"]
    /\ UNCHANGED <<sessions, should_stop, wpc, carryover, reads, outputs, ended,
                   exits, ret>>

ExitCodes == {"Some(0)", "None"}

----------------------------------------------------------------------------
(* The Mutex of the sessions map and the Mutex of each stop flag: the      *)
(* calls of the manager made by several threads at once, lock by lock,     *)
(* with the reader threads.  Children write nothing.                       *)

\* the calls that look a session up while they hold the map; which session
\* changes nothing, so the call is kept without it
LookupOps == {"write", "resize", "get_info"}

CallBecomes(c, rec) == call' = [call EXCEPT ![c] = rec]

\* ids no spawn has taken yet
UnusedIds == {id \in Ids : wpc[id] = "none"}

\* a thread enters a call: it is about to lock the sessions map
CallBegin(c, op, id) ==
    /\ call[c] = NoCall
    /\ op = "spawn" =>
          Cardinality(UnusedIds) > Cardinality({d \in Callers : call[d].op = "spawn"})
    /\ CallBecomes(c, InCall(op, id, "lock_map", {}))
    /\ UNCHANGED <<ptyVars, map_lock, stop_lock>>

\* self.sessions.lock() returns
CallLockMap(c) ==
    /\ call[c].pc = "lock_map"
    /\ map_lock = Free
    /\ map_lock' = Caller(c)
    /\ CallBecomes(c, [call[c] EXCEPT !.pc = "in_map"])
    /\ UNCHANGED <<ptyVars, stop_lock>>

\* spawn(): sessions.insert, the guard is dropped, the reader thread starts
CallSpawn(c, id) ==
    /\ call[c].pc = "in_map" /\ call[c].op = "spawn"
    /\ Spawn(id, ConfigFor(id))
    /\ map_lock' = Free
    /\ CallBecomes(c, NoCall)
    /\ UNCHANGED stop_lock

\* write(), resize(), get_info(), list_sessions(): the guard is dropped
\* when the call returns
CallLookup(c) ==
    /\ call[c].pc = "in_map" /\ call[c].op \in LookupOps \cup {"list_sessions"}
    /\ map_lock' = Free
    /\ CallBecomes(c, NoCall)
    /\ UNCHANGED <<ptyVars, stop_lock>>

\* kill(): sessions.remove(pty_id); with None the call returns
CallKillRemove(c) ==
    /\ call[c].pc = "in_map" /\ call[c].op = "kill"
    /\ IF call[c].pty_id \in DOMAIN sessions
       THEN /\ sessions' = MapRemove(sessions, call[c].pty_id)
            /\ CallBecomes(c, [call[c] EXCEPT !.pc = "lock_stop",
                                              !.drained = {call[c].pty_id}])
            /\ UNCHANGED map_lock
       ELSE /\ map_lock' = Free
            /\ CallBecomes(c, NoCall)
            /\ UNCHANGED sessions
    /\ UNCHANGED <<should_stop, wpc, carryover, child, reads, outputs, ended, exits, ret,
                   stop_lock>>

\* kill_all(): sessions.drain() hands out the sessions in any order; next
\* is the first of them
CallDrain(c, next) ==
    /\ call[c].pc = "in_map" /\ call[c].op = "kill_all"
    /\ sessions' = <<>>
    /\ IF sessions = <<>>
       THEN /\ map_lock' = Free
            /\ CallBecomes(c, NoCall)
       ELSE /\ next \in DOMAIN sessions
            /\ CallBecomes(c, InCall("kill_all", next, "lock_stop", DOMAIN sessions))
            /\ UNCHANGED map_lock
    /\ UNCHANGED <<should_stop, wpc, carryover, child, reads, outputs, ended, exits, ret,
                   stop_lock>>

\* session.should_stop.lock() returns, the map still locked
CallLockStop(c) ==
    /\ call[c].pc = "lock_stop"
    /\ stop_lock[call[c].pty_id] = Free
    /\ stop_lock' = [stop_lock EXCEPT ![call[c].pty_id] = Caller(c)]
    /\ CallBecomes(c, [call[c] EXCEPT !.pc = "in_stop"])
    /\ UNCHANGED <<ptyVars, map_lock>>

\* *guard = true, the guard of the flag is dropped; then the next session
\* drained, or the call returns and the guard of the map is dropped
CallSetStop(c, next) ==
    /\ call[c].pc = "in_stop"
    /\ should_stop' = [should_stop EXCEPT ![call[c].pty_id] = TRUE]
    /\ stop_lock' = [stop_lock EXCEPT ![call[c].pty_id] = Free]
    /\ IF call[c].drained = {call[c].pty_id}
       THEN /\ map_lock' = Free
            /\ CallBecomes(c, NoCall)
       ELSE /\ next \in call[c].drained \ {call[c].pty_id}
            /\ CallBecomes(c, InCall(call[c].op, next, "lock_stop",
                                   call[c].drained \ {call[c].pty_id}))
            /\ UNCHANGED map_lock
    /\ UNCHANGED <<sessions, wpc, carryover, child, reads, outputs, ended, exits, ret>>

\* should_stop_clone.lock() returns in the reader thread
WorkerLockStop(id) ==
    /\ wpc[id] = "loop"
    /\ stop_lock[id] = Free
    /\ stop_lock' = [stop_lock EXCEPT ![id] = Worker(id)]
    /\ UNCHANGED <<ptyVars, map_lock, call>>

\* the guard of the flag is never dropped
WorkerPolled_keeps_guard(id) ==
    /\ stop_lock[id] = Worker(id)
    /\ WorkerPoll(id)
    /\ UNCHANGED <<map_lock, stop_lock, call>>

\* the flag is read and the guard, a temporary of the condition, is dropped
WorkerPolled(id) ==
    /\ stop_lock[id] = Worker(id)
    /\ WorkerPoll(id)
    /\ stop_lock' = [stop_lock EXCEPT ![id] = Free]
    /\ UNCHANGED <<map_lock, call>>

\* sessions_ref.lock() returns in the reader thread
WorkerLockMap(id) ==
    /\ wpc[id] = "remove"
    /\ map_lock = Free
    /\ map_lock' = Worker(id)
    /\ UNCHANGED <<ptyVars, stop_lock, call>>

\* sessions.remove(&pty_id), the thread ends and the guard is dropped
WorkerRemoved(id) ==
    /\ map_lock = Worker(id)
    /\ WorkerRemove(id)
    /\ map_lock' = Free
    /\ UNCHANGED <<stop_lock, call>>


NextLocks ==
    \/ \E c \in Callers : CallBegin(c, "spawn", 0) /\ UNCHANGED nonMgrVars
    \/ \E c \in Callers, id \in Ids : CallBegin(c, "kill", id) /\ UNCHANGED nonMgrVars
    \/ \E c \in Callers, op \in LookupOps \cup {"list_sessions", "kill_all"} :
          CallBegin(c, op, 0) /\ UNCHANGED nonMgrVars
    \/ \E c \in Callers : CallLockMap(c) /\ UNCHANGED nonMgrVars
    \/ \E c \in Callers, id \in Ids : CallSpawn(c, id) /\ UNCHANGED nonMgrVars
    \/ \E c \in Callers : CallLookup(c) /\ UNCHANGED nonMgrVars
    \/ \E c \in Callers : CallKillRemove(c) /\ UNCHANGED nonMgrVars
    \/ \E c \in Callers, next \in Ids \cup {0} : CallDrain(c, next) /\ UNCHANGED nonMgrVars
    \/ \E c \in Callers : CallLockStop(c) /\ UNCHANGED nonMgrVars
    \/ \E c \in Callers, next \in Ids \cup {0} : CallSetStop(c, next) /\ UNCHANGED nonMgrVars
    \/ \E id \in Ids : WorkerLockStop(id) /\ UNCHANGED nonMgrVars
    \/ \E id \in Ids : WorkerPolled(id) /\ UNCHANGED nonMgrVars
    \/ \E id \in Ids : WorkerReadEof(id) /\ UNCHANGED nonPtyVars
    \/ \E id \in Ids : WorkerReadWouldBlock(id) /\ UNCHANGED nonPtyVars
    \/ \E id \in Ids : WorkerReadErr(id) /\ UNCHANGED nonPtyVars
    \/ \E id \in Ids : WorkerExit(id, "Some(0)") /\ UNCHANGED nonPtyVars
    \/ \E id \in Ids : WorkerLockMap(id) /\ UNCHANGED nonMgrVars
    \/ \E id \in Ids : WorkerRemoved(id) /\ UNCHANGED nonMgrVars
    \/ \E id \in Ids : ChildExit(id) /\ UNCHANGED nonPtyVars

----------------------------------------------------------------------------
(* csh/history.rs: History.  A command is the sequence of its characters.  *)

\* capacities History::new is called with: 0..MaxCap
MaxCap == 2
\* characters of the history file found on disk by with_file
MaxFileLen == 4

NL == "\n"
SP == " "
\* U+00A0 NO-BREAK SPACE: two bytes in UTF-8
NBSP == "nbsp"

\* char::is_whitespace among the characters of the texts
Whitespace == {SP, NL, NBSP}

\* the commands add() is called with: empty, two plain ones, one with a
\* leading space
Commands == {<<>>, <<"a">>, <<"b">>, <<SP, "a">>}

\* texts the history file may hold when with_file opens it
FileChars == {"a", SP, NL}
FileTexts == UNION {[1..n -> FileChars] : n \in 0..MaxFileLen}

\* the file cannot be opened
NoFile == <<"<none>">>

\* Option<&String>: {} is None, {e} is Some(e)
None == {}
Some(e) == {e}

HRet(op, value) == [op |-> op, value |-> value]

\* History::new(max_size), for each capacity
InitHistory ==
    /\ entries = <<>>
    /\ max_size \in 0..MaxCap
    /\ position = 0
    /\ file_path = FALSE
    /\ file = NoFile
    /\ hret = HRet("new", None)

\* the History is not part of the specification being checked
HistIdle ==
    /\ entries = <<>>
    /\ max_size = 0
    /\ position = 0
    /\ file_path = FALSE
    /\ file = NoFile
    /\ hret = HRet("idle", None)

\* BufRead::lines(): the text split at each "\n", the "\n" dropped; a last
\* line needs no "\n"
RECURSIVE Lines(_)
Lines(text) ==
    IF text = <<>> THEN <<>>
    ELSE LET nls == {i \in 1..Len(text) : text[i] = NL}
         IN  IF nls = {} THEN <<text>>
             ELSE <<SubSeq(text, 1, Min(nls) - 1)>>
                  \o Lines(SubSeq(text, Min(nls) + 1, Len(text)))

\* the loop of load_from_file over the lines, from the entries es
RECURSIVE LoadLines(_, _, _)
LoadLines(es, lines, cap) ==
    IF lines = <<>> THEN es
    ELSE LoadLines(IF Head(lines) # <<>> /\ Len(es) < cap THEN Append(es, Head(lines))
                   ELSE es,
                   Tail(lines), cap)

\* writeln!(file, "{}", entry) for each entry
RECURSIVE SaveText(_)
SaveText(es) == IF es = <<>> THEN <<>> ELSE Head(es) \o <<NL>> \o SaveText(Tail(es))

\* save(): the file is rewritten when there is a path
SavedFile(es) == IF file_path THEN SaveText(es) ELSE file

\* History::with_file(max_size, path) on a History just made by new(): text
\* is what the file holds, NoFile when File::open fails
WithFile(text) ==
    /\ hret.op = "new"
    /\ file_path' = TRUE
    /\ file' = text
    /\ IF text # NoFile
       THEN /\ entries' = LoadLines(entries, Lines(text), max_size)
            /\ position' = Len(entries')
       ELSE UNCHANGED <<entries, position>>
    /\ hret' = HRet("with_file", None)
    /\ UNCHANGED max_size

\* the early returns of add()
AddRejects(command) ==
    \/ command = <<>>
    \/ entries # <<>> /\ entries[Len(entries)] = command
    \/ command[1] = SP

\* pop_front() when at capacity, then push_back(command)
Pushed(es, command, cap) ==
    Append(IF Len(es) >= cap /\ es # <<>> THEN Tail(es) ELSE es, command)

Add(command) ==
    /\ hret.op # "idle"
    /\ IF AddRejects(command)
       THEN UNCHANGED <<entries, position, file>>
       ELSE /\ entries' = Pushed(entries, command, max_size)
            /\ position' = Len(entries')
            /\ file' = SavedFile(entries')
    /\ hret' = HRet("add", None)
    /\ UNCHANGED <<max_size, file_path>>

\* previous() returning the entry before the one it moves to
Previous_off_by_one ==
    /\ hret.op # "idle"
    /\ IF entries = <<>> \/ position = 0
       THEN /\ hret' = HRet("previous", None)
            /\ UNCHANGED position
       ELSE /\ position' = position - 1
            /\ hret' = HRet("previous",
                            IF position < Len(entries) THEN Some(entries[position + 1])
                            ELSE None)
    /\ UNCHANGED <<entries, max_size, file_path, file>>

\* entries.get(i) with a 0-based index
Get(es, i) == IF i < Len(es) THEN Some(es[i + 1]) ELSE None

Previous ==
    /\ hret.op # "idle"
    /\ IF entries = <<>> \/ position = 0
       THEN /\ hret' = HRet("previous", None)
            /\ UNCHANGED position
       ELSE /\ position' = position - 1
            /\ hret' = HRet("previous", Get(entries, position'))
    /\ UNCHANGED <<entries, max_size, file_path, file>>

HistNext ==
    /\ hret.op # "idle"
    /\ IF position >= Len(entries)
       THEN /\ hret' = HRet("next", None)
            /\ UNCHANGED position
       ELSE /\ position' = position + 1
            /\ hret' = HRet("next", IF position' >= Len(entries) THEN None
                                    ELSE Get(entries, position'))
    /\ UNCHANGED <<entries, max_size, file_path, file>>

ResetPosition ==
    /\ hret.op # "idle"
    /\ position' = Len(entries)
    /\ hret' = HRet("reset_position", None)
    /\ UNCHANGED <<entries, max_size, file_path, file>>

Clear ==
    /\ hret.op # "idle"
    /\ entries' = <<>>
    /\ position' = 0
    /\ hret' = HRet("clear", None)
    /\ UNCHANGED <<max_size, file_path, file>>

NextHistory ==
    \/ \E text \in FileTexts \cup {NoFile} : WithFile(text) /\ UNCHANGED nonHistVars
    \/ \E command \in Commands : Add(command) /\ UNCHANGED nonHistVars
    \/ Previous /\ UNCHANGED nonHistVars
    \/ HistNext /\ UNCHANGED nonHistVars
    \/ ResetPosition /\ UNCHANGED nonHistVars
    \/ Clear /\ UNCHANGED nonHistVars

----------------------------------------------------------------------------
(* csh/lexer.rs and csh/parser.rs.  Text is a sequence of characters.  The *)
(* characters modelled are a letter, space, newline, & | ; > and the       *)
(* single quote; the branches of the lexer for other characters ($ # " \   *)
(* < = 2> and brackets) are outside the texts drawn here, so no word holds *)
(* an '=' and parse_command's loop over environment assignments is empty.  *)

\* chunks an input text is put together from in the parser specification
MaxChunks == 5

QUOTE == "'"
BSL == "\\"

Chunks == {<<"a">>, <<"&", "&">>, <<"|", "|">>, <<";">>, <<"|">>, <<"&">>, <<QUOTE>>}

RECURSIVE Concat(_)
Concat(ss) == IF ss = <<>> THEN <<>> ELSE Head(ss) \o Concat(Tail(ss))

ParserTexts == {Concat(cs) : cs \in UNION {[1..n -> Chunks] : n \in 0..MaxChunks}}

\* texts of several lines: commands, semicolons and line ends
LineChunks == {<<"a">>, <<";">>, <<NL>>}

LineTexts == {Concat(cs) : cs \in UNION {[1..n -> LineChunks] : n \in 0..MaxChunks}}

\* texts of one pipeline: commands, pipes, redirects to and from the file f
RedirectChunks == {<<"a">>, <<"|">>, <<">", "f">>, <<"<", "f">>}

RedirectedTexts ==
    {Concat(cs) : cs \in UNION {[1..n -> RedirectChunks] : n \in 0..MaxChunks}}

Tok(type, text) == [type |-> type, text |-> text]

\* Result<Token, LexerError> with the input left
LexOk(tok, rest) == [ok |-> TRUE, tok |-> tok, rest |-> rest]
LexErr(rest)     == [ok |-> FALSE, tok |-> Tok("Error", <<>>), rest |-> rest]

RECURSIVE skip_whitespace(_)
skip_whitespace(s) ==
    IF s # <<>> /\ Head(s) = SP THEN skip_whitespace(Tail(s)) ELSE s

At(s, i) == IF i <= Len(s) THEN s[i] ELSE "<end>"

\* after the opening quote: the text up to the closing quote
RECURSIVE QuotedTail(_, _)
QuotedTail(s, acc) ==
    IF s = <<>> THEN LexErr(<<>>)
    ELSE IF Head(s) = QUOTE THEN LexOk(Tok("QuotedString", acc), Tail(s))
    ELSE QuotedTail(Tail(s), Append(acc, Head(s)))

read_single_quoted_string(s) == QuotedTail(Tail(s), <<>>)

DQUOTE == "\""
DOLLAR == "$"

\* char::is_alphabetic and char::is_alphanumeric over ASCII
Alphabetic ==
    {"a", "b", "c", "d", "e", "f", "g", "h", "i", "j", "k", "l", "m",
     "n", "o", "p", "q", "r", "s", "t", "u", "v", "w", "x", "y", "z",
     "A", "B", "C", "D", "E", "F", "G", "H", "I", "J", "K", "L", "M",
     "N", "O", "P", "Q", "R", "S", "T", "U", "V", "W", "X", "Y", "Z"}

Digits == {"0", "1", "2", "3", "4", "5", "6", "7", "8", "9"}

Alphanumeric == Alphabetic \cup Digits

\* how many characters at the start of s are alphanumeric or "_"
RECURSIVE NameLen(_)
NameLen(s) ==
    IF s = <<>> THEN 0
    ELSE IF Head(s) \in Alphanumeric \cup {"_"} THEN 1 + NameLen(Tail(s)) ELSE 0

\* where the first "}" of s is, 0 when there is none
CloseAt(s) ==
    IF \E i \in 1..Len(s) : s[i] = "}"
    THEN Min({i \in 1..Len(s) : s[i] = "}"}) ELSE 0

\* format!("${{{}}}", var)
VarRef(var) == <<DOLLAR, "{">> \o var \o <<"}">>

\* read_variable with rest the text behind the "$"
VariableAt(rest) ==
    IF At(rest, 1) = "{"
    THEN IF CloseAt(Tail(rest)) = 0 THEN LexErr(<<>>)
         ELSE LexOk(Tok("Variable", SubSeq(Tail(rest), 1, CloseAt(Tail(rest)) - 1)),
                    SliceFrom(Tail(rest), CloseAt(Tail(rest))))
    ELSE IF At(rest, 1) \in Alphabetic \cup {"_"}
         THEN LexOk(Tok("Variable", SubSeq(rest, 1, NameLen(rest))),
                    SliceFrom(rest, NameLen(rest)))
    ELSE IF At(rest, 1) \in {"?", DOLLAR} \cup Digits
         THEN LexOk(Tok("Variable", <<rest[1]>>), Tail(rest))
    ELSE LexOk(Tok("Word", <<DOLLAR>>), rest)

read_variable(s) == VariableAt(Tail(s))

RECURSIVE DoubleTail(_, _)

\* read_double_quoted_string after a "$" was read as v: a variable is kept
\* as ${name}, a lone "$" is not pushed
DoubleAfterVariable(v, acc) ==
    IF ~v.ok THEN LexErr(<<>>)
    ELSE IF v.tok.type = "Variable" THEN DoubleTail(v.rest, acc \o VarRef(v.tok.text))
    ELSE DoubleTail(v.rest, acc)

\* what a backslash and the character c behind it push
Escaped(c) ==
    IF c \in {BSL, DQUOTE, DOLLAR} THEN <<c>>
    ELSE IF c = "n" THEN <<NL>>
    ELSE IF c = "t" THEN <<"\t">>
    ELSE IF c = "r" THEN <<"\r">>
    ELSE <<BSL, c>>

\* after the opening double quote: the text up to the closing one
DoubleTail(s, acc) ==
    IF s = <<>> THEN LexErr(<<>>)
    ELSE IF Head(s) = DQUOTE THEN LexOk(Tok("QuotedString", acc), Tail(s))
    ELSE IF Head(s) = BSL
         THEN IF Tail(s) = <<>> THEN LexErr(<<>>)
              ELSE DoubleTail(Tail(Tail(s)), acc \o Escaped(s[2]))
    ELSE IF Head(s) = DOLLAR THEN DoubleAfterVariable(read_variable(s), acc)
    ELSE DoubleTail(Tail(s), Append(acc, Head(s)))

read_double_quoted_string(s) == DoubleTail(Tail(s), <<>>)

WordTerminators == {SP, NL, "|", "&", ";", ">", "<"}

RECURSIVE WordTail(_, _)
WordTail(s, word) ==
    IF s = <<>> \/ Head(s) \in WordTerminators THEN LexOk(Tok("Word", word), s)
    ELSE IF Head(s) = BSL
         THEN IF Tail(s) = <<>> THEN WordTail(<<>>, word)
              ELSE WordTail(Tail(Tail(s)), Append(word, s[2]))
    ELSE IF Head(s) = QUOTE
         THEN LET quoted == read_single_quoted_string(s)
              IN  IF quoted.ok THEN WordTail(quoted.rest, word \o quoted.tok.text)
                  ELSE LexErr(<<>>)
    ELSE IF Head(s) = DQUOTE
         THEN LET quoted == read_double_quoted_string(s)
              IN  IF quoted.ok THEN WordTail(quoted.rest, word \o quoted.tok.text)
                  ELSE LexErr(<<>>)
    ELSE IF Head(s) = DOLLAR
         THEN LET var == read_variable(s)
              IN  IF ~var.ok THEN LexErr(<<>>)
                  ELSE IF var.tok.type = "Variable"
                       THEN WordTail(var.rest, word \o VarRef(var.tok.text))
                  ELSE WordTail(var.rest, word \o var.tok.text)
    ELSE WordTail(Tail(s), Append(word, Head(s)))

read_word(s) == WordTail(s, <<>>)

\* Lexer::next_token when no token has been peeked, at the first character
\* that is not white space
LexAt(s) ==
    IF s = <<>> THEN LexOk(Tok("Eof", <<>>), s)
    ELSE IF Head(s) = NL THEN LexOk(Tok("Newline", <<>>), Tail(s))
    ELSE IF Head(s) = "|"
         THEN IF At(s, 2) = "|" THEN LexOk(Tok("Or", <<>>), SliceFrom(s, 2))
              ELSE LexOk(Tok("Pipe", <<>>), Tail(s))
    ELSE IF Head(s) = "&"
         THEN IF At(s, 2) = "&" THEN LexOk(Tok("And", <<>>), SliceFrom(s, 2))
              ELSE IF At(s, 2) = ">"
                   THEN IF At(s, 3) = ">"
                        THEN LexOk(Tok("AppendBoth", <<>>), SliceFrom(s, 3))
                        ELSE LexOk(Tok("RedirectBoth", <<>>), SliceFrom(s, 2))
              ELSE LexOk(Tok("Background", <<>>), Tail(s))
    ELSE IF Head(s) = ";" THEN LexOk(Tok("Semicolon", <<>>), Tail(s))
    ELSE IF Head(s) = ">"
         THEN IF At(s, 2) = ">" THEN LexOk(Tok("AppendOut", <<>>), SliceFrom(s, 2))
              ELSE LexOk(Tok("RedirectOut", <<>>), Tail(s))
    ELSE IF Head(s) = "<" THEN LexOk(Tok("RedirectIn", <<>>), Tail(s))
    ELSE IF Head(s) = QUOTE THEN read_single_quoted_string(s)
    ELSE IF Head(s) = DQUOTE THEN read_double_quoted_string(s)
    ELSE IF Head(s) = DOLLAR THEN read_variable(s)
    ELSE read_word(s)

LexNext(inp) == LexAt(skip_whitespace(inp))

\* The Lexer: the input not yet read and the peeked token ({} is None)
Lexer(inp, peeked) == [input |-> inp, peeked_token |-> peeked]

\* Result of a lexer call: ok, the token, the lexer afterwards
LexRes(ok, tok, lx) == [ok |-> ok, tok |-> tok, lexer |-> lx]

\* next_token with the token r just read
NextFrom(r) == LexRes(r.ok, r.tok, Lexer(r.rest, {}))

next_token(lx) ==
    IF lx.peeked_token # {}
    THEN LexRes(TRUE, CHOOSE t \in lx.peeked_token : TRUE, Lexer(lx.input, {}))
    ELSE NextFrom(LexNext(lx.input))

\* peek with the token r just read: kept as peeked_token when it is Ok
PeekFrom(r) ==
    IF r.ok THEN LexRes(TRUE, r.tok, Lexer(r.rest, {r.tok}))
    ELSE LexRes(FALSE, r.tok, Lexer(r.rest, {}))

peek(lx) ==
    IF lx.peeked_token # {}
    THEN LexRes(TRUE, CHOOSE t \in lx.peeked_token : TRUE, lx)
    ELSE PeekFrom(LexNext(lx.input))

RECURSIVE skip_newlines(_)

\* skip_newlines with the peeked token p
SkipFrom(p) ==
    IF ~p.ok THEN [ok |-> FALSE, lexer |-> p.lexer]
    ELSE IF p.tok.type = "Newline" THEN skip_newlines(next_token(p.lexer).lexer)
    ELSE [ok |-> TRUE, lexer |-> p.lexer]

skip_newlines(lx) == SkipFrom(peek(lx))

RedirectTokens == {"RedirectOut", "AppendOut", "RedirectIn", "RedirectBoth", "AppendBoth"}

RedirectTypeOf(type) ==
    CASE type = "RedirectOut"  -> "StdoutOverwrite"
      [] type = "AppendOut"    -> "StdoutAppend"
      [] type = "RedirectIn"   -> "StdinRead"
      [] type = "RedirectBoth" -> "BothOverwrite"
      [] type = "AppendBoth"   -> "BothAppend"

Redirect(redirect_type, target) == [redirect_type |-> redirect_type, target |-> target]

\* Result of a parser function: ok, the value, the lexer afterwards
ParseRes(ok, value, lx) == [ok |-> ok, value |-> value, lexer |-> lx]

\* the String a Word, a QuotedString or a Variable token stands for
TokenText(tok) == IF tok.type = "Variable" THEN VarRef(tok.text) ELSE tok.text

\* parse_redirect with the redirect token and the token after it
RedirectTarget(token, target_token) ==
    IF ~target_token.ok THEN ParseRes(FALSE, "LexerError", target_token.lexer)
    ELSE IF target_token.tok.type \in {"Word", "QuotedString", "Variable"}
         THEN ParseRes(TRUE, Redirect(RedirectTypeOf(token.tok.type),
                                      TokenText(target_token.tok)), target_token.lexer)
    ELSE IF target_token.tok.type = "Eof"
         THEN ParseRes(FALSE, "MissingRedirectTarget", target_token.lexer)
    ELSE ParseRes(FALSE, "UnexpectedToken", target_token.lexer)

RedirectFrom(token) ==
    IF ~token.ok THEN ParseRes(FALSE, "LexerError", token.lexer)
    ELSE RedirectTarget(token, next_token(token.lexer))

parse_redirect(lx) == RedirectFrom(next_token(lx))

Command(name, args) == [name |-> name, args |-> args]

RECURSIVE CommandLoop(_, _, _, _)

\* the loop of parse_command after a redirect r was parsed
CommandAfterRedirect(r, name, args, redirects) ==
    IF r.ok THEN CommandLoop(r.lexer, name, args, Append(redirects, r.value)) ELSE r

\* the loop of parse_command at the peeked token p
CommandAt(p, name, args, redirects) ==
    IF ~p.ok THEN ParseRes(FALSE, "LexerError", p.lexer)
    ELSE IF p.tok.type \in {"Word", "QuotedString", "Variable"}
         THEN CommandLoop(next_token(p.lexer).lexer,
                          IF name = <<>> THEN TokenText(p.tok) ELSE name,
                          IF name = <<>> THEN args ELSE Append(args, TokenText(p.tok)),
                          redirects)
    ELSE IF p.tok.type \in RedirectTokens
         THEN CommandAfterRedirect(parse_redirect(p.lexer), name, args, redirects)
    ELSE IF name = <<>> THEN ParseRes(FALSE, "EmptyPipeline", p.lexer)
    ELSE ParseRes(TRUE, [cmd |-> Command(name, args), redirects |-> redirects], p.lexer)

\* the loop of parse_command over the name, the arguments and the redirects
CommandLoop(lx, name, args, redirects) == CommandAt(peek(lx), name, args, redirects)

parse_command(lx) == CommandLoop(lx, <<>>, <<>>, <<>>)

\* Pipeline: stdin_redirect is an Option ({} is None)
Pipeline(commands, stdin_redirect, stdout_redirects, background) ==
    [commands |-> commands, stdin_redirect |-> stdin_redirect,
     stdout_redirects |-> stdout_redirects, background |-> background]

IsStdin(redirect) == redirect.redirect_type = "StdinRead"

\* the redirects of a command that are pushed to stdout_redirects
StdoutOf(redirects) == SelectSeq(redirects, LAMBDA r : ~IsStdin(r))

\* stdin_redirect after the redirects of the first command: the last
\* StdinRead among them
RECURSIVE StdinOf(_)
StdinOf(redirects) ==
    IF redirects = <<>> THEN {}
    ELSE IF IsStdin(redirects[Len(redirects)]) THEN {redirects[Len(redirects)]}
    ELSE StdinOf(SubSeq(redirects, 1, Len(redirects) - 1))

RECURSIVE PipeLoop(_, _, _, _)

\* after a Pipe token and the command c that follows it: stdout_redirects
\* was cleared and takes the redirects of c
PipeAfterCommand(c, commands, stdin_redirect) ==
    IF ~c.ok THEN c
    ELSE IF \E i \in 1..Len(c.value.redirects) : IsStdin(c.value.redirects[i])
         THEN ParseRes(FALSE, "InvalidSyntax", c.lexer)
    ELSE PipeLoop(c.lexer, Append(commands, c.value.cmd), stdin_redirect,
                  c.value.redirects)

\* after a Pipe token and the newlines that follow it
PipeAfterNewlines(nl, commands, stdin_redirect) ==
    IF ~nl.ok THEN ParseRes(FALSE, "LexerError", nl.lexer)
    ELSE PipeAfterCommand(parse_command(nl.lexer), commands, stdin_redirect)

\* the loop of parse_pipeline at the peeked token p
PipeAt(p, commands, stdin_redirect, stdout_redirects) ==
    IF ~p.ok THEN ParseRes(FALSE, "LexerError", p.lexer)
    ELSE IF p.tok.type = "Pipe"
         THEN PipeAfterNewlines(skip_newlines(next_token(p.lexer).lexer), commands,
                                stdin_redirect)
    ELSE IF p.tok.type = "Background"
         THEN ParseRes(TRUE, Pipeline(commands, stdin_redirect, stdout_redirects, TRUE),
                       next_token(p.lexer).lexer)
    ELSE ParseRes(TRUE, Pipeline(commands, stdin_redirect, stdout_redirects, FALSE),
                  p.lexer)

\* the loop of parse_pipeline over the pipe chain
PipeLoop(lx, commands, stdin_redirect, stdout_redirects) ==
    PipeAt(peek(lx), commands, stdin_redirect, stdout_redirects)

\* parse_pipeline after its first command c
PipeFirst(c) ==
    IF ~c.ok THEN c
    ELSE PipeLoop(c.lexer, <<c.value.cmd>>, StdinOf(c.value.redirects),
                  StdoutOf(c.value.redirects))

parse_pipeline(lx) == PipeFirst(parse_command(lx))

\* CommandLine::new()
EmptyCommandLine == [pipelines |-> <<>>, operators |-> <<>>]

\* State of parse_command_line: where it is, its lexer, the CommandLine so
\* far, and what the last turn consumed: the operator token, followed by
\* "Pipeline" when a pipeline was parsed after it (<<>> when nothing)
PState(pc, lx, cl, op) == [ppc |-> pc, lexer |-> lx, command_line |-> cl, op |-> op]

\* after the first pipeline
FirstPipeline(first_pipeline) ==
    IF ~first_pipeline.ok
    THEN PState("err", first_pipeline.lexer, EmptyCommandLine, <<>>)
    ELSE PState("loop", first_pipeline.lexer,
                [pipelines |-> <<first_pipeline.value>>, operators |-> <<>>], <<>>)

\* the check for empty input at the peeked token p
FirstAt(p) ==
    IF ~p.ok THEN PState("err", p.lexer, EmptyCommandLine, <<>>)
    ELSE IF p.tok.type = "Eof" THEN PState("ok", p.lexer, EmptyCommandLine, <<>>)
    ELSE FirstPipeline(parse_pipeline(p.lexer))

FirstAfterNewlines(nl) ==
    IF ~nl.ok THEN PState("err", nl.lexer, EmptyCommandLine, <<>>)
    ELSE FirstAt(peek(nl.lexer))

\* parse_command_line up to its loop: leading newlines, empty input, the
\* first pipeline
ParseFirstOp(lx) == FirstAfterNewlines(skip_newlines(lx))

\* every operator token taken for &&
LogicalOpOf_always_and(type) == "And"

LogicalOpOf(type) == IF type = "And" THEN "And" ELSE IF type = "Or" THEN "Or" ELSE "Sequence"

\* CommandLine with one more pipeline and the operator before it
PushPipeline(cl, pipeline, op) ==
    [pipelines |-> Append(cl.pipelines, pipeline), operators |-> Append(cl.operators, op)]

\* a turn of the loop after the operator token and the pipeline that follows
TurnPipeline(type, pipeline, cl) ==
    IF ~pipeline.ok THEN PState("err", pipeline.lexer, cl, <<type>>)
    ELSE PState("loop", pipeline.lexer,
                PushPipeline(cl, pipeline.value, LogicalOpOf(type)),
                <<type, "Pipeline">>)

\* a turn of the loop after a Semicolon, at the token peeked after it
TurnAfterSemicolon(after, cl) ==
    IF ~after.ok THEN PState("err", after.lexer, cl, <<"Semicolon">>)
    ELSE IF after.tok.type \in {"Eof", "Newline", "Semicolon"}
         THEN PState("loop", after.lexer, cl, <<"Semicolon">>)
    ELSE TurnPipeline("Semicolon", parse_pipeline(after.lexer), cl)

\* a turn of the loop after the operator token and the newlines behind it
TurnAfterNewlines(type, nl, cl) ==
    IF ~nl.ok THEN PState("err", nl.lexer, cl, <<type>>)
    ELSE IF type = "Semicolon" THEN TurnAfterSemicolon(peek(nl.lexer), cl)
    ELSE TurnPipeline(type, parse_pipeline(nl.lexer), cl)

\* a turn of the loop at the peeked token
TurnAt(token, cl) ==
    IF ~token.ok THEN PState("err", token.lexer, cl, <<>>)
    ELSE IF token.tok.type \in {"And", "Or", "Semicolon"}
         THEN TurnAfterNewlines(token.tok.type,
                                skip_newlines(next_token(token.lexer).lexer), cl)
    ELSE PState("ok", token.lexer, cl, <<>>)

\* one turn of the loop of parse_command_line
ParseTurn(lx, cl) == TurnAt(peek(lx), cl)

\* parser::parse(text): parse_command_line run to its end
RECURSIVE ParseRun(_)
ParseRun(st) ==
    IF st.ppc = "loop" THEN ParseRun(ParseTurn(st.lexer, st.command_line)) ELSE st

parse(text) == ParseRun(ParseFirstOp(Lexer(text, {})))

\* the lexer of the parser at work
TheLexer == Lexer(input, peeked_token)

\* the parser takes the state st
ParserBecomes(st) ==
    /\ input' = st.lexer.input
    /\ peeked_token' = st.lexer.peeked_token
    /\ command_line' = st.command_line
    /\ seen_ops' = seen_ops \o st.op
    /\ ppc' = st.ppc

\* no parser is at work
ParserIdle ==
    /\ input = <<>>
    /\ peeked_token = {}
    /\ command_line = EmptyCommandLine
    /\ seen_ops = <<>>
    /\ ppc = "idle"

\* Parser::new(text), for each text
InitParser ==
    /\ input \in ParserTexts \cup LineTexts \cup RedirectedTexts
    /\ peeked_token = {}
    /\ command_line = EmptyCommandLine
    /\ seen_ops = <<>>
    /\ ppc = "start"

ParseFirst ==
    /\ ppc = "start"
    /\ ParserBecomes(ParseFirstOp(TheLexer))

\* the token at the top of the loop
LoopToken == peek(TheLexer)

\* a turn of the loop at Token::And or Token::Or
ParseAndOr ==
    /\ ppc = "loop"
    /\ LoopToken.ok /\ LoopToken.tok.type \in {"And", "Or"}
    /\ ParserBecomes(ParseTurn(TheLexer, command_line))

\* a turn of the loop at Token::Semicolon
ParseSemicolon ==
    /\ ppc = "loop"
    /\ LoopToken.ok /\ LoopToken.tok.type = "Semicolon"
    /\ ParserBecomes(ParseTurn(TheLexer, command_line))

\* the loop ends at Newline, Eof or any other token: Ok(command_line)
ParseBreak ==
    /\ ppc = "loop"
    /\ LoopToken.ok /\ LoopToken.tok.type \notin {"And", "Or", "Semicolon"}
    /\ ParserBecomes(ParseTurn(TheLexer, command_line))

\* the peek at the top of the loop meets a lexer error
ParsePeekError ==
    /\ ppc = "loop"
    /\ ~LoopToken.ok
    /\ ParserBecomes(ParseTurn(TheLexer, command_line))

NextParser ==
    \/ ParseFirst /\ UNCHANGED nonParserVars
    \/ ParseAndOr /\ UNCHANGED nonParserVars
    \/ ParseSemicolon /\ UNCHANGED nonParserVars
    \/ ParseBreak /\ UNCHANGED nonParserVars
    \/ ParsePeekError /\ UNCHANGED nonParserVars

----------------------------------------------------------------------------
(* csh/executor.rs and csh/shell.rs: the read-eval loop over piped input.  *)
(* A script is the text of stdin line by line together with the aliases    *)
(* defined and the file on disk when the shell starts.  HOME is the only  *)
(* variable with a value that the scripts name, $? aside; no open of a     *)
(* redirect target fails.                                                  *)

\* pipelines on a line drawn for the operators between them
MaxPipelines == 3

TrueWord  == <<"t", "r", "u", "e">>
FalseWord == <<"f", "a", "l", "s", "e">>
EchoWord  == <<"e", "c", "h", "o">>
\* a program on the PATH, a name that is no program, an alias name, a file
ProgWord    == <<"x">>
UnknownWord == <<"n">>
LlWord      == <<"l", "l">>
LmWord      == <<"l", "m">>
FileF       == <<"f">>

\* the built-in commands that occur in the scripts
BuiltinNames == {TrueWord, FalseWord, EchoWord}

\* the programs std::process::Command finds
OnPath == {ProgWord, EchoWord, TrueWord, FalseWord}

EchoY == EchoWord \o <<SP, "y">>

\* commands whose statuses drive the logical operators
StatusCommands == {TrueWord, FalseWord, ProgWord, UnknownWord}

OperatorTexts == {<<SP, "&", "&", SP>>, <<SP, "|", "|", SP>>, <<SP, ";", SP>>}

\* the lines of n pipelines
RECURSIVE LinesOf(_)
LinesOf(n) ==
    IF n = 1 THEN StatusCommands
    ELSE {l \o op \o c : l \in LinesOf(n - 1), op \in OperatorTexts, c \in StatusCommands}

Script(lines, als, f) == [lines |-> lines, aliases |-> als, file |-> f]

NoAliases == {}

\* false && echo x || echo y
ExampleLine ==
    FalseWord \o <<SP, "&", "&", SP>> \o EchoWord \o <<SP, "x">>
        \o <<SP, "|", "|", SP>> \o EchoY

\* one line of up to MaxPipelines pipelines
OperatorScripts ==
    {Script(<<l>>, NoAliases, NoFile) :
        l \in {ExampleLine} \cup UNION {LinesOf(n) : n \in 1..MaxPipelines}}

PipeText == <<SP, "|", SP>>
BackgroundText == <<SP, "&">>

\* background and foreground pipelines of one and of several commands
BackgroundScripts ==
    {Script(<<l>>, NoAliases, NoFile) :
        l \in {ProgWord \o BackgroundText,
               ProgWord \o PipeText \o ProgWord \o BackgroundText,
               ProgWord \o PipeText \o ProgWord,
               ProgWord \o PipeText \o UnknownWord,
               ProgWord \o PipeText \o UnknownWord \o BackgroundText,
               UnknownWord \o BackgroundText,
               FalseWord \o BackgroundText}}

RedirectTexts == {<<SP, ">", SP>>, <<SP, ">", ">", SP>>}

\* the same command twice, redirected to f, over each content of f
RedirectCommands == {EchoY, ProgWord, ProgWord \o PipeText \o ProgWord, UnknownWord}

RedirectScripts ==
    {Script(<<c \o r \o FileF, c \o r \o FileF>>, NoAliases, f) :
        c \in RedirectCommands,
        r \in RedirectTexts,
        f \in {NoFile, <<>>, <<"p", NL>>}}

\* lines the lexer or the parser rejects
BadLines ==
    {<<"|">>, ProgWord \o <<SP, "&", "&">>, <<QUOTE>> \o ProgWord,
     EchoY \o <<SP, ">">>, TrueWord \o <<SP, ";", SP, "|", SP>> \o ProgWord}

\* a line, a rejected line, and a line after it
ErrorScripts ==
    {Script(<<first, bad, TrueWord>>, NoAliases, <<>>) :
        first \in {TrueWord, FalseWord, UnknownWord}, bad \in BadLines}
    \cup {Script(<<bad, FalseWord>>, NoAliases, <<>>) : bad \in BadLines}

Alias(name, value) == [name |-> name, value |-> value]

\* the quotes that execute_alias trims from a value
AliasQuotes == {QUOTE, "\""}

\* str::trim_matches of the two quotes
RECURSIVE TrimQuotesStart(_)
TrimQuotesStart(s) ==
    IF s = <<>> THEN s
    ELSE IF Head(s) \in AliasQuotes THEN TrimQuotesStart(Tail(s)) ELSE s

RECURSIVE TrimQuotesEnd(_)
TrimQuotesEnd(s) ==
    IF s = <<>> THEN s
    ELSE IF s[Len(s)] \in AliasQuotes THEN TrimQuotesEnd(SubSeq(s, 1, Len(s) - 1)) ELSE s

\* str::split_once('='): where the first "=" is, 0 when there is none
FirstEquals(s) ==
    IF \E i \in 1..Len(s) : s[i] = "="
    THEN Min({i \in 1..Len(s) : s[i] = "="}) ELSE 0

\* Environment::set_alias: HashMap::insert
set_alias(als, name, value) == {a \in als : a.name # name} \cup {Alias(name, value)}

\* execute_alias with arguments: the alias table afterwards; an argument
\* without "=" shows an alias and returns
RECURSIVE execute_alias(_, _)
execute_alias(args, als) ==
    IF args = <<>> THEN als
    ELSE IF FirstEquals(Head(args)) = 0 THEN als
    ELSE execute_alias(Tail(args),
            set_alias(als, SubSeq(Head(args), 1, FirstEquals(Head(args)) - 1),
                      TrimQuotesEnd(TrimQuotesStart(
                          SubSeq(Head(args), FirstEquals(Head(args)) + 1,
                                 Len(Head(args)))))))

\* alias tables: none, one naming itself, two naming each other, one naming
\* a built-in, and those alias ll= and alias ll=' ' leave
AliasTables ==
    {NoAliases,
     {Alias(LlWord, LlWord \o <<SP, "-", "l">>)},
     {Alias(LlWord, LmWord), Alias(LmWord, LlWord \o <<SP, "b">>)},
     {Alias(LlWord, EchoY)},
     execute_alias(<<LlWord \o <<"=">>>>, NoAliases),
     execute_alias(<<LlWord \o <<"=", QUOTE, SP, QUOTE>>>>, {Alias(LlWord, EchoY)})}

AliasScripts ==
    {Script(<<l>>, als, NoFile) :
        l \in {LlWord, LlWord \o <<SP, "a">>, LmWord, LlWord \o PipeText \o LlWord,
               LlWord \o <<SP, "&", "&", SP>> \o LlWord},
        als \in AliasTables}

\* $? and ~ bare, in single quotes, in double quotes and behind a backslash
QuotedArgs ==
    {<<DOLLAR, "?">>, <<"~">>,
     <<QUOTE, DOLLAR, "?", QUOTE>>, <<QUOTE, "~", QUOTE>>,
     <<DQUOTE, DOLLAR, "?", DQUOTE>>, <<DQUOTE, BSL, DOLLAR, "?", DQUOTE>>,
     <<BSL, DOLLAR, "?">>, <<DOLLAR, "A">>, <<QUOTE, DOLLAR, "A", QUOTE>>}

\* a command that sets the exit code, then echo with one argument
QuoteScripts ==
    {Script(<<first, EchoWord \o <<SP>> \o arg>>, NoAliases, NoFile) :
        first \in {TrueWord, FalseWord}, arg \in QuotedArgs}

Scripts ==
    OperatorScripts \cup BackgroundScripts \cup RedirectScripts
        \cup ErrorScripts \cup AliasScripts \cup QuoteScripts

\* Environment::set_last_exit_code never called
set_last_exit_code_not_called(old, code) == old

\* every redirect opened with File::create
OpenFile_truncates(fs, redirect) == [fs EXCEPT ![redirect.target] = <<>>]

\* only && looked at
Skips_and_only(operators, i, status) ==
    i > 1 /\ i - 1 <= Len(operators) /\ operators[i - 1] = "And" /\ status # 0

\* str::split_whitespace
RECURSIVE SplitFrom(_, _, _)
SplitFrom(s, word, acc) ==
    IF s = <<>> THEN (IF word = <<>> THEN acc ELSE Append(acc, word))
    ELSE IF Head(s) \in Whitespace
         THEN SplitFrom(Tail(s), <<>>, IF word = <<>> THEN acc ELSE Append(acc, word))
    ELSE SplitFrom(Tail(s), Append(word, Head(s)), acc)

split_whitespace(s) == SplitFrom(s, <<>>, <<>>)

\* [String]::join(" ")
RECURSIVE Join(_)
Join(words) ==
    IF words = <<>> THEN <<>>
    ELSE IF Len(words) = 1 THEN words[1]
    ELSE words[1] \o <<SP>> \o Join(Tail(words))

\* Environment::expand_alias: Option<String>
expand_alias(als, command) == {a.value : a \in {b \in als : b.name = command}}

\* what a pipeline did: whether the shell panicked, the status code, the
\* files afterwards, the calls of child.wait(), the commands run as a
\* built-in or handed to spawn with their arguments, the aliases expanded,
\* what was written to the output file
Ran(panic, code, fs, waited, calls, expansions, output) ==
    [panic |-> panic, code |-> code, files |-> fs, waited |-> waited,
     calls |-> calls, expansions |-> expansions, output |-> output]

Call(kind, name, args) == [kind |-> kind, name |-> name, args |-> args]

IsOverwrite(redirect_type) == redirect_type \in {"StdoutOverwrite", "BothOverwrite"}

\* File::create(path), OpenOptions::new().create(true).append(true).open(path)
OpenFile(fs, redirect) ==
    IF IsOverwrite(redirect.redirect_type) \/ fs[redirect.target] = NoFile
    THEN [fs EXCEPT ![redirect.target] = <<>>]
    ELSE fs

RECURSIVE OpenAll(_, _)
OpenAll(fs, redirects) ==
    IF redirects = <<>> THEN fs ELSE OpenAll(OpenFile(fs, Head(redirects)), Tail(redirects))

\* the file standard output goes to: the one opened last
OutputFile(redirects) ==
    IF redirects = <<>> THEN {} ELSE {redirects[Len(redirects)].target}

\* what goes to the output file: nothing when there is none
FileOutput(redirects, output) == IF redirects = <<>> THEN <<>> ELSE output

\* write_all on the output file, when there is one
WriteOut(fs, target, output) ==
    IF target = {} THEN fs
    ELSE [fs EXCEPT ![CHOOSE t \in target : TRUE] = @ \o output]

\* Builtins::execute for echo without options, true and false
BuiltinCode(name) == IF name = FalseWord THEN 1 ELSE 0

BuiltinOutput(name, args) == IF name = EchoWord THEN Join(args) \o <<NL>> ELSE <<>>

execute_builtin(name, args, redirects, fs, expansions) ==
    Ran(FALSE, BuiltinCode(name),
        WriteOut(OpenAll(fs, redirects), OutputFile(redirects), BuiltinOutput(name, args)),
        0, <<Call("builtin", name, args)>>, expansions,
        FileOutput(redirects, BuiltinOutput(name, args)))

\* status.code().unwrap_or(1): {} is the None of a child killed by a signal
UnwrapOr1(code) == IF code = {} THEN 1 ELSE CHOOSE c \in code : TRUE

\* cmd.spawn(): with cfg(windows) the program spawned is cmd.exe /c name,
\* which is always found and exits with 1 when name is no program
Spawns(name, windows) == name \in OnPath \/ windows

ChildCode(name, code) == IF name \in OnPath THEN UnwrapOr1(code) ELSE 1

ChildOutput(name, output) == IF name \in OnPath THEN output ELSE <<>>

\* execute_external; the output of a background child arrives after the
\* call has returned
execute_external(name, args, redirects, background, fs, expansions, code, output, windows) ==
    IF ~Spawns(name, windows)
    THEN Ran(FALSE, 127, OpenAll(fs, redirects), 0,
             <<Call("spawn failed", name, args)>>, expansions, <<>>)
    ELSE IF background
         THEN Ran(FALSE, 0, OpenAll(fs, redirects), 0,
                  <<Call("spawn", name, args)>>, expansions, <<>>)
    ELSE Ran(FALSE, ChildCode(name, code),
             WriteOut(OpenAll(fs, redirects), OutputFile(redirects), ChildOutput(name, output)),
             1, <<Call("spawn", name, args)>>, expansions,
             FileOutput(redirects, ChildOutput(name, output)))

\* i32::to_string of an exit code
DigitChar(d) == <<"0", "1", "2", "3", "4", "5", "6", "7", "8", "9">>[d + 1]

RECURSIVE Decimal(_)
Decimal(n) ==
    IF n < 10 THEN <<DigitChar(n)>>
    ELSE Decimal(n \div 10) \o <<DigitChar(n % 10)>>

HomeName == <<"H", "O", "M", "E">>
HomeDir == <<"/", "h">>

\* Environment::get_value: Option<String>
get_value(name) ==
    IF name = <<"?">> THEN {Decimal(last_exit_code)}
    ELSE IF name = HomeName THEN {HomeDir}
    ELSE {}

\* result.push_str(&value) when get_value returned Some(value)
PushValue(result, value) ==
    IF value = {} THEN result ELSE result \o (CHOOSE v \in value : TRUE)

\* the name of $VAR at the start of s: "?" alone, or alphanumerics and "_"
VarNameLen(s) == IF At(s, 1) = "?" THEN 1 ELSE NameLen(s)

\* the loop of expand_variables over the characters left
RECURSIVE ExpandFrom(_, _)
ExpandFrom(s, result) ==
    IF s = <<>> THEN result
    ELSE IF Head(s) = DOLLAR
         THEN IF At(s, 2) = "{"
              THEN IF CloseAt(SliceFrom(s, 2)) = 0
                   THEN PushValue(result, get_value(SliceFrom(s, 2)))
                   ELSE ExpandFrom(SliceFrom(s, 2 + CloseAt(SliceFrom(s, 2))),
                                   PushValue(result,
                                       get_value(SubSeq(s, 3, 1 + CloseAt(SliceFrom(s, 2))))))
              ELSE IF At(s, 2) \in Alphabetic \cup {"_", "?"}
                   THEN ExpandFrom(SliceFrom(s, 1 + VarNameLen(Tail(s))),
                                   PushValue(result,
                                       get_value(SubSeq(s, 2, 1 + VarNameLen(Tail(s))))))
              ELSE ExpandFrom(Tail(s), Append(result, DOLLAR))
    ELSE IF Head(s) = "~" /\ result = <<>>
         THEN ExpandFrom(Tail(s), IF get_value(HomeName) # {}
                                  THEN PushValue(result, get_value(HomeName))
                                  ELSE Append(result, "~"))
    ELSE ExpandFrom(Tail(s), Append(result, Head(s)))

\* Environment::expand_variables
expand_variables(text) == ExpandFrom(text, <<>>)

\* expanded_name and expanded_args of a command
Expanded(cmd) ==
    Command(expand_variables(cmd.name),
            [i \in 1..Len(cmd.args) |-> expand_variables(cmd.args[i])])

\* the name and the arguments after the alias check with the alias value
\* split into parts
AliasParts(parts, args) == [name |-> parts[1], args |-> Tail(parts) \o args]

\* the alias value looked up a second time
AliasFinal_expands_again(als, expansion, name, args) ==
    IF expansion = {} THEN [name |-> name, args |-> args]
    ELSE LET first == AliasParts(split_whitespace(CHOOSE v \in expansion : TRUE), args)
         IN  IF expand_alias(als, first.name) = {} THEN first
             ELSE AliasParts(split_whitespace(CHOOSE v \in expand_alias(als, first.name) : TRUE),
                             first.args)

\* (final_name, final_args) of execute_single_command
AliasFinal(als, expansion, name, args) ==
    IF expansion = {} THEN [name |-> name, args |-> args]
    ELSE AliasParts(split_whitespace(CHOOSE v \in expansion : TRUE), args)

\* parts.remove(0) on an empty Vec panics
AliasPanics(expansion) ==
    expansion # {} /\ split_whitespace(CHOOSE v \in expansion : TRUE) = <<>>

\* execute_single_command after the alias check
ExecuteFinal(final, redirects, background, fs, expansions, code, output, windows) ==
    IF final.name \in BuiltinNames
    THEN execute_builtin(final.name, final.args, redirects, fs, expansions)
    ELSE execute_external(final.name, final.args, redirects, background, fs, expansions,
                          code, output, windows)

\* execute_single_command with the name and the arguments expanded
ExecuteExpanded(cmd, redirects, background, als, fs, code, output, windows) ==
    IF AliasPanics(expand_alias(als, cmd.name))
    THEN Ran(TRUE, 101, fs, 0, <<>>, 1, <<>>)
    ELSE ExecuteFinal(AliasFinal(als, expand_alias(als, cmd.name), cmd.name, cmd.args),
                      redirects, background, fs,
                      IF expand_alias(als, cmd.name) = {} THEN 0 ELSE 1,
                      code, output, windows)

execute_single_command(cmd, redirects, background, als, fs, code, output, windows) ==
    ExecuteExpanded(Expanded(cmd), redirects, background, als, fs, code, output, windows)

\* the commands of a pipe chain that fail to spawn
FailedSpawns(commands, windows) ==
    {i \in 1..Len(commands) : ~Spawns(commands[i].name, windows)}

SpawnCalls(commands, n, windows) ==
    [i \in 1..n |-> Call(IF Spawns(commands[i].name, windows) THEN "spawn" ELSE "spawn failed",
                         commands[i].name, commands[i].args)]

LastCmd(commands) == commands[Len(commands)]

\* execute_pipe_chain with the names and the arguments expanded: the
\* commands are spawned as they are written, the redirects are opened before
\* the last one is spawned, every child is waited for and the status is that
\* of the last one
SpawnChain(pipeline, fs, code, output, windows) ==
    IF FailedSpawns(pipeline.commands, windows) # {}
    THEN Ran(FALSE, 127,
             IF Min(FailedSpawns(pipeline.commands, windows)) = Len(pipeline.commands)
             THEN OpenAll(fs, pipeline.stdout_redirects) ELSE fs,
             0,
             SpawnCalls(pipeline.commands, Min(FailedSpawns(pipeline.commands, windows)),
                        windows),
             0, <<>>)
    ELSE Ran(FALSE, ChildCode(LastCmd(pipeline.commands).name, code),
             WriteOut(OpenAll(fs, pipeline.stdout_redirects),
                      OutputFile(pipeline.stdout_redirects),
                      ChildOutput(LastCmd(pipeline.commands).name, output)),
             Len(pipeline.commands),
             SpawnCalls(pipeline.commands, Len(pipeline.commands), windows),
             0,
             FileOutput(pipeline.stdout_redirects,
                        ChildOutput(LastCmd(pipeline.commands).name, output)))

execute_pipe_chain(pipeline, fs, code, output, windows) ==
    SpawnChain([pipeline EXCEPT !.commands = [i \in 1..Len(@) |-> Expanded(@[i])]],
               fs, code, output, windows)

execute_pipeline(pipeline, als, fs, code, output, windows) ==
    IF pipeline.commands = <<>> THEN Ran(FALSE, 0, fs, 0, <<>>, 0, <<>>)
    ELSE IF Len(pipeline.commands) = 1
         THEN execute_single_command(pipeline.commands[1], pipeline.stdout_redirects,
                                     pipeline.background, als, fs, code, output, windows)
    ELSE execute_pipe_chain(pipeline, fs, code, output, windows)

\* whether the loop of execute skips pipeline i
Skips(operators, i, status) ==
    /\ i > 1
    /\ i - 1 <= Len(operators)
    /\ \/ operators[i - 1] = "And" /\ status # 0
       \/ operators[i - 1] = "Or" /\ status = 0

\* str::trim
RECURSIVE TrimStart(_)
TrimStart(s) == IF s # <<>> /\ Head(s) \in Whitespace THEN TrimStart(Tail(s)) ELSE s

RECURSIVE TrimEnd(_)
TrimEnd(s) ==
    IF s # <<>> /\ s[Len(s)] \in Whitespace THEN TrimEnd(SubSeq(s, 1, Len(s) - 1)) ELSE s

Trim(s) == TrimEnd(TrimStart(s))

\* exit status of a child: Some(code), or None ({}) after a signal
ChildCodes == {{0}, {2}, {}}

\* what a child writes to its standard output
ChildOutputs == {<<>>, <<"o", NL>>}

\* Environment::set_last_exit_code
set_last_exit_code(old, code) == code

NoRan == Ran(FALSE, 0, <<>>, 0, <<>>, 0, <<>>)

\* the last thing the shell did (history): kind is "none", "parse_error",
\* "empty", "skip" or "run"; for a skip and a run the line, the index of the
\* pipeline, the pipelines of the line executed before it with their codes,
\* last_exit_code before it, and for a run what the pipeline did
LastRun(kind, line, index, before, code_before, result) ==
    [kind |-> kind, line |-> line, index |-> index, before |-> before,
     code_before |-> code_before, result |-> result]

ShellIdle ==
    /\ script = Script(<<>>, NoAliases, NoFile)
    /\ cfg_windows = FALSE
    /\ line_no = 0
    /\ spc = "idle"
    /\ cmd_line = EmptyCommandLine
    /\ idx = 0
    /\ last_status = 0
    /\ last_exit_code = 0
    /\ aliases = NoAliases
    /\ files = <<>>
    /\ last_run = LastRun("none", 0, 0, <<>>, 0, NoRan)
    /\ ran = <<>>
    /\ file_log = <<>>
    /\ mode = "stdin"
    /\ line_status = 0
    /\ exit_status = {}

\* Shell::new() with the aliases of the script defined and its file on disk,
\* built for Windows or not
InitShell ==
    /\ script \in Scripts
    /\ cfg_windows \in BOOLEAN
    /\ line_no = 1
    /\ spc = "read"
    /\ cmd_line = EmptyCommandLine
    /\ idx = 0
    /\ last_status = 0
    /\ last_exit_code = 0
    /\ aliases = script.aliases
    /\ files = [t \in {FileF} |-> script.file]
    /\ last_run = LastRun("none", 0, 0, <<>>, 0, NoRan)
    /\ ran = <<>>
    /\ file_log = <<>>
    /\ mode = "stdin"
    /\ line_status = 0
    /\ exit_status = {}

\* execute_line with the result of parser::parse: Err is reported and
\* ExitStatus::failure(1) returned, Ok of an empty CommandLine returns
\* success, any other is handed to Executor::execute
ExecuteLineParsed(parsed) ==
    /\ spc' = IF parsed.ppc = "ok" /\ parsed.command_line.pipelines # <<>>
              THEN "exec" ELSE "read"
    /\ line_no' = IF parsed.ppc = "ok" /\ parsed.command_line.pipelines # <<>>
                  THEN line_no ELSE line_no + 1
    /\ cmd_line' = IF parsed.ppc = "ok" THEN parsed.command_line ELSE EmptyCommandLine
    /\ idx' = 1
    /\ last_status' = 0
    /\ ran' = <<>>
    /\ last_run' = LastRun(IF parsed.ppc # "ok" THEN "parse_error"
                           ELSE IF parsed.command_line.pipelines = <<>> THEN "empty"
                           ELSE "none",
                           line_no, 0, <<>>, last_exit_code, NoRan)
    /\ line_status' = IF mode # "-c" \/ (parsed.ppc = "ok" /\ parsed.command_line.pipelines # <<>>)
                      THEN line_status
                      ELSE IF parsed.ppc = "ok" THEN 0 ELSE 1
    /\ UNCHANGED <<script, cfg_windows, last_exit_code, aliases, files, file_log, mode,
                   exit_status>>

\* run_simple_mode reads a line that is not empty once trimmed and calls
\* execute_line
ReadLine ==
    /\ mode = "stdin"
    /\ spc = "read"
    /\ line_no <= Len(script.lines)
    /\ Trim(script.lines[line_no]) # <<>>
    /\ ExecuteLineParsed(parse(Trim(script.lines[line_no])))

\* read_line returns Ok(0): the loop ends and run returns self.exit_code,
\* which no line of the scripts has set
ReadEof ==
    /\ mode = "stdin"
    /\ spc = "read"
    /\ line_no > Len(script.lines)
    /\ spc' = "done"
    /\ exit_status' = {0}
    /\ UNCHANGED <<script, cfg_windows, line_no, cmd_line, idx, last_status, last_exit_code,
                   aliases, files, last_run, ran, file_log, mode, line_status>>

\* a turn of the loop of execute that skips the pipeline
ExecSkip ==
    /\ spc = "exec"
    /\ idx <= Len(cmd_line.pipelines)
    /\ Skips(cmd_line.operators, idx, last_status)
    /\ idx' = idx + 1
    /\ last_run' = LastRun("skip", line_no, idx, ran, last_exit_code, NoRan)
    /\ UNCHANGED <<script, cfg_windows, line_no, spc, cmd_line, last_status, last_exit_code,
                   aliases, files, ran, file_log, mode, line_status, exit_status>>

\* the shell after a pipeline has been executed with the result
ShellRan(result) ==
    /\ spc' = IF result.panic THEN "panic" ELSE "exec"
    /\ idx' = idx + 1
    /\ last_status' = IF result.panic THEN last_status ELSE result.code
    /\ last_exit_code' = IF result.panic THEN last_exit_code
                         ELSE set_last_exit_code(last_exit_code, result.code)
    /\ files' = result.files
    /\ last_run' = LastRun("run", line_no, idx, ran, last_exit_code, result)
    /\ ran' = Append(ran, [index |-> idx, code |-> result.code])
    /\ file_log' = Append(file_log, result.output)
    /\ UNCHANGED <<script, cfg_windows, line_no, cmd_line, aliases, mode, line_status,
                   exit_status>>

\* a turn of the loop of execute that executes the pipeline; the last child
\* exits with code after writing output
ExecPipeline(code, output) ==
    /\ spc = "exec"
    /\ idx <= Len(cmd_line.pipelines)
    /\ ~Skips(cmd_line.operators, idx, last_status)
    /\ ShellRan(execute_pipeline(cmd_line.pipelines[idx], aliases, files, code, output,
                                 cfg_windows))

\* execute returns last_status, execute_line returns it, the loop goes on;
\* run_simple_mode drops the status, execute_command and run_script hold it
ExecReturn ==
    /\ spc = "exec"
    /\ idx > Len(cmd_line.pipelines)
    /\ spc' = "read"
    /\ line_no' = line_no + 1
    /\ line_status' = IF mode = "stdin" THEN line_status ELSE last_status
    /\ UNCHANGED <<script, cfg_windows, cmd_line, idx, last_status, last_exit_code,
                   aliases, files, last_run, ran, file_log, mode, exit_status>>

NextShell ==
    \/ ReadLine /\ UNCHANGED nonShellVars
    \/ ReadEof /\ UNCHANGED nonShellVars
    \/ ExecSkip /\ UNCHANGED nonShellVars
    \/ \E code \in ChildCodes, output \in ChildOutputs :
          ExecPipeline(code, output) /\ UNCHANGED nonShellVars
    \/ ExecReturn /\ UNCHANGED nonShellVars


----------------------------------------------------------------------------
(* csh/shell.rs and csh/script.rs: main with -c and a command string, and  *)
(* main with the path of a script file.  The lines are those of            *)
(* str::lines; no line starts with "exit", so should_exit stays false.     *)

\* lines of a command string or of a script file
MaxLines == 2

HASH == "#"
CommentLine == <<HASH, "c">>

\* the lines a command string or a script is made of
PlainLines ==
    StatusCommands \cup {CommentLine, <<SP>>, <<"|">>, ExampleLine,
                         TrueWord \o <<SP, "|", "|", SP>> \o FalseWord}

\* csh -c <command>
CommandScripts ==
    {Script(ls, NoAliases, NoFile) : ls \in UNION {[1..n -> PlainLines] : n \in 1..MaxLines}}

\* lines that end with a backslash and the lines after them
ContinuedLines ==
    {<<EchoWord \o <<SP, BSL>>, <<"y">>>>,
     <<EchoWord \o <<SP, "y", BSL>>, <<SP, "y">>>>,
     <<FalseWord \o <<SP, "|", "|", SP, BSL>>, TrueWord>>,
     <<ProgWord \o <<SP, BSL, SP>>, ProgWord>>,
     <<TrueWord, EchoWord \o <<BSL>>>>}

\* csh <script>
ScriptFiles ==
    {Script(ls, NoAliases, NoFile) :
        ls \in ContinuedLines \cup UNION {[1..n -> PlainLines] : n \in 1..MaxLines}}

\* load_script: the lines of the file trimmed, a line that ends with a
\* backslash joined to the next one, empty lines and comments left out
RECURSIVE LoadFrom(_, _, _)
LoadFrom(ls, current_line, acc) ==
    IF ls = <<>> THEN acc
    ELSE IF Trim(Head(ls)) # <<>> /\ Trim(Head(ls))[Len(Trim(Head(ls)))] = BSL
         THEN LoadFrom(Tail(ls),
                       current_line \o SubSeq(Trim(Head(ls)), 1, Len(Trim(Head(ls))) - 1)
                           \o <<SP>>,
                       acc)
    ELSE LoadFrom(Tail(ls), <<>>,
                  IF current_line \o Trim(Head(ls)) # <<>>
                     /\ Head(current_line \o Trim(Head(ls))) # HASH
                  THEN Append(acc, current_line \o Trim(Head(ls)))
                  ELSE acc)

load_script(ls) == LoadFrom(ls, <<>>, <<>>)

\* main called with -c and each command string, with each script file
InitMain(scripts, m) ==
    /\ script \in scripts
    /\ cfg_windows \in BOOLEAN
    /\ line_no = 1
    /\ spc = "read"
    /\ cmd_line = EmptyCommandLine
    /\ idx = 0
    /\ last_status = 0
    /\ last_exit_code = 0
    /\ aliases = script.aliases
    /\ files = [t \in {FileF} |-> script.file]
    /\ last_run = LastRun("none", 0, 0, <<>>, 0, NoRan)
    /\ ran = <<>>
    /\ file_log = <<>>
    /\ mode = m
    /\ line_status = 0
    /\ exit_status = {}

InitCommand == InitMain(CommandScripts, "-c")

InitScriptFile == InitMain(ScriptFiles, "script")

\* line.is_empty() || line.starts_with('#') on the trimmed line
IsSkipped(line) == IF line = <<>> THEN TRUE ELSE Head(line) = HASH

\* execute_command and run_script pass over the line
SkipLine ==
    /\ mode \in {"-c", "script"}
    /\ spc = "read"
    /\ line_no <= Len(script.lines)
    /\ IsSkipped(Trim(script.lines[line_no]))
    /\ line_no' = line_no + 1
    /\ UNCHANGED <<script, cfg_windows, spc, cmd_line, idx, last_status, last_exit_code,
                   aliases, files, last_run, ran, file_log, mode, line_status, exit_status>>

\* execute_command calls execute_line on the line
CommandLine ==
    /\ mode = "-c"
    /\ spc = "read"
    /\ line_no <= Len(script.lines)
    /\ ~IsSkipped(Trim(script.lines[line_no]))
    /\ ExecuteLineParsed(parse(Trim(script.lines[line_no])))

\* the loop of execute_command is over: it returns ExitStatus::success()
\* and main returns the code of that
CommandReturn ==
    /\ mode = "-c"
    /\ spc = "read"
    /\ line_no > Len(script.lines)
    /\ spc' = "done"
    /\ exit_status' = {0}
    /\ UNCHANGED <<script, cfg_windows, line_no, cmd_line, idx, last_status, last_exit_code,
                   aliases, files, last_run, ran, file_log, mode, line_status>>

\* run_script with the result of parser::parse on the line: Err makes
\* run_script return Err, execute_script ExitStatus::failure(1) and main 1;
\* Ok of an empty CommandLine goes on; any other is handed to
\* Executor::execute
ScriptLineParsed(parsed) ==
    /\ spc' = IF parsed.ppc # "ok" THEN "done"
              ELSE IF parsed.command_line.pipelines # <<>> THEN "exec" ELSE "read"
    /\ exit_status' = IF parsed.ppc # "ok" THEN {1} ELSE exit_status
    /\ line_no' = IF parsed.ppc = "ok" /\ parsed.command_line.pipelines = <<>>
                  THEN line_no + 1 ELSE line_no
    /\ cmd_line' = IF parsed.ppc = "ok" THEN parsed.command_line ELSE EmptyCommandLine
    /\ idx' = 1
    /\ last_status' = 0
    /\ ran' = <<>>
    /\ last_run' = LastRun(IF parsed.ppc # "ok" THEN "parse_error"
                           ELSE IF parsed.command_line.pipelines = <<>> THEN "empty"
                           ELSE "none",
                           line_no, 0, <<>>, last_exit_code, NoRan)
    /\ UNCHANGED <<script, cfg_windows, last_exit_code, aliases, files, file_log, mode,
                   line_status>>

\* run_script parses the line
ScriptLine ==
    /\ mode = "script"
    /\ spc = "read"
    /\ line_no <= Len(script.lines)
    /\ ~IsSkipped(Trim(script.lines[line_no]))
    /\ ScriptLineParsed(parse(Trim(script.lines[line_no])))

\* the loop of run_script is over: it returns Ok(last_status) and main
\* returns its code
ScriptReturn ==
    /\ mode = "script"
    /\ spc = "read"
    /\ line_no > Len(script.lines)
    /\ spc' = "done"
    /\ exit_status' = {line_status}
    /\ UNCHANGED <<script, cfg_windows, line_no, cmd_line, idx, last_status, last_exit_code,
                   aliases, files, last_run, ran, file_log, mode, line_status>>

NextCommand ==
    \/ SkipLine /\ UNCHANGED nonShellVars
    \/ CommandLine /\ UNCHANGED nonShellVars
    \/ CommandReturn /\ UNCHANGED nonShellVars
    \/ ExecSkip /\ UNCHANGED nonShellVars
    \/ \E code \in ChildCodes, output \in ChildOutputs :
          ExecPipeline(code, output) /\ UNCHANGED nonShellVars
    \/ ExecReturn /\ UNCHANGED nonShellVars

NextScript ==
    \/ SkipLine /\ UNCHANGED nonShellVars
    \/ ScriptLine /\ UNCHANGED nonShellVars
    \/ ScriptReturn /\ UNCHANGED nonShellVars
    \/ ExecSkip /\ UNCHANGED nonShellVars
    \/ \E code \in ChildCodes, output \in ChildOutputs :
          ExecPipeline(code, output) /\ UNCHANGED nonShellVars
    \/ ExecReturn /\ UNCHANGED nonShellVars
----------------------------------------------------------------------------
(* csh/environment.rs: the variables of the shell and the environment of   *)
(* its process.  A map is a function on the set of its keys.               *)

\* names in the environment of the process when the shell starts
OsNames == {"A", "PWD", "USER"}

\* names the calls are made with
EnvNames == {"A", "USER"}

EnvValues == {"1", "/d1"}

Dirs == {"/d1", "/d2"}

\* whoami::username()
Username == "u"

\* env::vars() when the shell starts
OsEnvs == UNION {[S -> EnvValues] : S \in SUBSET OsNames}

EnvCall(op, name) == [op |-> op, name |-> name]

EnvIdle ==
    /\ local_vars = <<>>
    /\ exported_vars = <<>>
    /\ process_env = <<>>
    /\ cwd = ""
    /\ process_cwd = ""
    /\ eret = EnvCall("idle", "")

\* set_special_vars: SHELL_NAME and SHELL_VERSION become locals
SpecialLocals == [n \in {"SHELL_NAME", "SHELL_VERSION"} |->
                     IF n = "SHELL_NAME" THEN "csh" ELSE "0.1.0"]

\* set_special_vars: PWD and USER are inserted into exported_vars (as are
\* HOME and HOSTNAME when they are known)
SpecialExports(exports, dir) == MapInsert(MapInsert(exports, "PWD", dir), "USER", Username)

\* Environment::new() in a process with the environment os and the current
\* directory dir
InitEnvironment ==
    \E os \in OsEnvs, dir \in Dirs :
        /\ process_env = os
        /\ process_cwd = dir
        /\ cwd = dir
        /\ local_vars = SpecialLocals
        /\ exported_vars = SpecialExports(os, dir)
        /\ eret = EnvCall("new", "")

\* Environment::set
EnvSet(name, value) ==
    /\ local_vars' = MapInsert(local_vars, name, value)
    /\ eret' = EnvCall("set", name)
    /\ UNCHANGED <<exported_vars, process_env, cwd, process_cwd>>

\* the value export stores: the one given, else the local one, else ""
ExportValue(name, value) ==
    IF value # {} THEN CHOOSE v \in value : TRUE
    ELSE IF name \in DOMAIN local_vars THEN local_vars[name]
    ELSE ""

\* Environment::export
EnvExport(name, value) ==
    /\ exported_vars' = MapInsert(exported_vars, name, ExportValue(name, value))
    /\ process_env' = MapInsert(process_env, name, ExportValue(name, value))
    /\ local_vars' = MapRemove(local_vars, name)
    /\ eret' = EnvCall("export", name)
    /\ UNCHANGED <<cwd, process_cwd>>

\* Environment::unset
EnvUnset(name) ==
    /\ local_vars' = MapRemove(local_vars, name)
    /\ exported_vars' = MapRemove(exported_vars, name)
    /\ process_env' = MapRemove(process_env, name)
    /\ eret' = EnvCall("unset", name)
    /\ UNCHANGED <<cwd, process_cwd>>

\* Environment::set_cwd: nothing changes when env::set_current_dir fails
EnvSetCwd(path, ok) ==
    /\ process_cwd' = IF ok THEN path ELSE process_cwd
    /\ cwd' = IF ok THEN path ELSE cwd
    /\ exported_vars' = IF ok THEN MapInsert(exported_vars, "PWD", path) ELSE exported_vars
    /\ process_env' = IF ok THEN MapInsert(process_env, "PWD", path) ELSE process_env
    /\ eret' = EnvCall(IF ok THEN "set_cwd" ELSE "set_cwd failed", "PWD")
    /\ UNCHANGED local_vars

\* builtins/cd::execute with a target that canonicalizes to path: is_dir is
\* what target.is_dir() returns, ok whether env::set_current_dir succeeds.
\* OLDPWD is exported before set_cwd is called.
EnvCd(path, is_dir, ok) ==
    IF ~is_dir
    THEN /\ eret' = EnvCall("cd failed", "")
         /\ UNCHANGED <<local_vars, exported_vars, process_env, cwd, process_cwd>>
    ELSE /\ local_vars' = MapRemove(local_vars, "OLDPWD")
         /\ exported_vars' =
               IF ok THEN MapInsert(MapInsert(exported_vars, "OLDPWD", cwd), "PWD", path)
               ELSE MapInsert(exported_vars, "OLDPWD", cwd)
         /\ process_env' =
               IF ok THEN MapInsert(MapInsert(process_env, "OLDPWD", cwd), "PWD", path)
               ELSE MapInsert(process_env, "OLDPWD", cwd)
         /\ process_cwd' = IF ok THEN path ELSE process_cwd
         /\ cwd' = IF ok THEN path ELSE cwd
         /\ eret' = EnvCall(IF ok THEN "cd" ELSE "cd failed", "OLDPWD")

NextEnvironment ==
    \/ \E path \in Dirs, is_dir \in BOOLEAN, ok \in BOOLEAN :
          EnvCd(path, is_dir, ok) /\ UNCHANGED nonEnvVars
    \/ \E name \in EnvNames, value \in EnvValues :
          EnvSet(name, value) /\ UNCHANGED nonEnvVars
    \/ \E name \in EnvNames, value \in {{}} \cup {{v} : v \in EnvValues} :
          EnvExport(name, value) /\ UNCHANGED nonEnvVars
    \/ \E name \in EnvNames : EnvUnset(name) /\ UNCHANGED nonEnvVars
    \/ \E path \in Dirs, ok \in BOOLEAN : EnvSetCwd(path, ok) /\ UNCHANGED nonEnvVars

----------------------------------------------------------------------------
(* csh/readline.rs: the line editor walking the history with Up and Down.  *)
(* The History is borrowed for the whole of readline and does not change;  *)
(* the cursor stays at the end of the buffer.                              *)

\* entries of the History handed to readline
MaxEntries == 2

\* characters typed into an empty buffer
MaxTyped == 2

\* Up and Down keys pressed during one readline
MaxPresses == 6

EntryTexts == {<<"a">>, <<"b">>}

\* the histories History::add can build: no entry repeats the one before it
Histories ==
    {h \in UNION {[1..n -> EntryTexts] : n \in 0..MaxEntries} :
        \A i \in 1..(Len(h) - 1) : h[i] # h[i + 1]}

Editor(buf, index, saved) == [buffer |-> buf, history_index |-> index, saved_input |-> saved]

\* the buffer saved on every Up
history_prev_saves_always(ed, history) ==
    IF Len(history) = 0 THEN ed
    ELSE IF ed.history_index < Len(history) - 1
         THEN Editor(history[Len(history) - (ed.history_index + 1)],
                     ed.history_index + 1, ed.buffer)
    ELSE Editor(ed.buffer, ed.history_index, ed.buffer)

\* LineEditor::history_prev; history.get(i) is history[i + 1]
history_prev(ed, history) ==
    IF Len(history) = 0 THEN ed
    ELSE IF ed.history_index < Len(history) - 1
         THEN Editor(history[Len(history) - (ed.history_index + 1)],
                     ed.history_index + 1,
                     IF ed.history_index = -1 THEN ed.buffer ELSE ed.saved_input)
    ELSE Editor(ed.buffer, ed.history_index,
                IF ed.history_index = -1 THEN ed.buffer ELSE ed.saved_input)

\* LineEditor::history_next
history_next(ed, history) ==
    IF ed.history_index <= 0
    THEN IF ed.history_index = 0 THEN Editor(ed.saved_input, -1, ed.saved_input) ELSE ed
    ELSE Editor(history[Len(history) - (ed.history_index - 1)],
                ed.history_index - 1, ed.saved_input)

TheEditor == Editor(buffer, history_index, saved_input)

\* the last key and the editor before it (history)
Key(key, before) == [key |-> key, before |-> before]

\* the builtins, aliases and PATH commands, and the entries of the current
\* directory
CompleterEnv(commands, dir) == [commands |-> commands, entries |-> dir]
\* the fields of the LineEditor, and whether a call on it has panicked
Line(buf, cur, index, saved, comps, ci, inc, esc) ==
    [buffer |-> buf, cursor |-> cur, history_index |-> index, saved_input |-> saved,
     completions |-> comps, completion_index |-> ci, in_completion |-> inc,
     escape_state |-> esc, escape_params |-> <<>>, panic |-> FALSE]

\* the last key of the read loop and what it made readline do (history)
KeyLog(key, result) == [key |-> key, result |-> result]

NoKey == KeyLog("none", "none")

ReadlineIdle ==
    /\ completions = <<>>
    /\ completion_index = 0
    /\ in_completion = FALSE
    /\ escape_state = "Normal"
    /\ escape_params = <<>>
    /\ raw_mode = FALSE
    /\ rpc = "idle"
    /\ completer_env = CompleterEnv({}, {})
    /\ key_log = NoKey

EditorIdle ==
    /\ cursor = 0
    /\ ReadlineIdle
    /\ ed_history = <<>>
    /\ buffer = <<>>
    /\ history_index = 0
    /\ saved_input = <<>>
    /\ last_key = Key("idle", Editor(<<>>, 0, <<>>))
    /\ nav_from = <<>>
    /\ ups = 0
    /\ downs = 0
    /\ presses = 0

\* readline called with each History: the state after its reset
InitEditor ==
    /\ ed_history \in Histories
    /\ cursor = 0
    /\ ReadlineIdle
    /\ buffer = <<>>
    /\ history_index = -1
    /\ saved_input = <<>>
    /\ last_key = Key("none", Editor(<<>>, -1, <<>>))
    /\ nav_from = <<>>
    /\ ups = 0
    /\ downs = 0
    /\ presses = 0

EditorBecomes(ed) ==
    /\ buffer' = ed.buffer
    /\ history_index' = ed.history_index
    /\ saved_input' = ed.saved_input

\* KeyCode::Char(c): insert_char at the end of the buffer
TypeChar(c) ==
    /\ Len(buffer) < MaxTyped
    /\ buffer' = Append(buffer, c)
    /\ cursor' = cursor + 1
    /\ UNCHANGED readlineVars
    /\ last_key' = Key("Char", TheEditor)
    /\ ups' = 0
    /\ downs' = 0
    /\ UNCHANGED <<ed_history, history_index, saved_input, nav_from, presses>>

\* KeyCode::Up.  ups counts the Up keys in a row that began at index -1
\* with the buffer nav_from
KeyUp ==
    /\ presses < MaxPresses
    /\ EditorBecomes(history_prev(TheEditor, ed_history))
    /\ cursor' = Len(buffer')
    /\ UNCHANGED readlineVars
    /\ last_key' = Key("Up", TheEditor)
    /\ presses' = presses + 1
    /\ nav_from' = IF history_index = -1 THEN buffer ELSE nav_from
    /\ ups' = IF history_index = -1 THEN 1
              ELSE IF ups > 0 /\ downs = 0 THEN ups + 1 ELSE 0
    /\ downs' = 0
    /\ UNCHANGED ed_history

\* KeyCode::Down.  downs counts the Down keys in a row after the Up keys
KeyDown ==
    /\ presses < MaxPresses
    /\ EditorBecomes(history_next(TheEditor, ed_history))
    /\ cursor' = Len(buffer')
    /\ UNCHANGED readlineVars
    /\ last_key' = Key("Down", TheEditor)
    /\ presses' = presses + 1
    /\ downs' = IF ups > 0 THEN downs + 1 ELSE 0
    /\ UNCHANGED <<ed_history, nav_from, ups>>

NextEditor ==
    \/ \E c \in {"c"} : TypeChar(c) /\ UNCHANGED nonEditorVars
    \/ KeyUp /\ UNCHANGED nonEditorVars
    \/ KeyDown /\ UNCHANGED nonEditorVars

----------------------------------------------------------------------------
(* csh/readline.rs: one call of readline key by key, with the cursor, Tab  *)
(* completion and the raw mode of the terminal.  The History handed in is  *)
(* empty here (the walk through it is the section above).  No text holds a *)
(* '/' or a '\', so get_completion_prefix is empty and                     *)
(* get_completion_filename is get_completion_word; no candidate is a       *)
(* directory; every letter is lower case, so to_lowercase changes nothing. *)

\* characters typed into the buffer during one readline
MaxBuffer == 3

KeyChars == {"h", "e", SP, NBSP}

\* char::len_utf8
len_utf8(c) == IF c = NBSP THEN 2 ELSE 1

\* String::len: the length in bytes
RECURSIVE ByteLen(_)
ByteLen(s) == IF s = <<>> THEN 0 ELSE len_utf8(Head(s)) + ByteLen(Tail(s))

\* the characters of s before byte index b: {k} when b is a character
\* boundary of s, {} when it is inside a character (slicing there panics)
CharsBefore(s, b) == {k \in 0..Len(s) : ByteLen(SubSeq(s, 1, k)) = b}

\* str::starts_with
starts_with(s, p) == Len(p) <= Len(s) /\ SubSeq(s, 1, Len(p)) = p

\* the names the completer can find
NameHe == <<"h", "e">>
NameHh == <<"h", "h">>
NameE == <<"e">>

\* the completers readline is called with
CompleterEnvs == {CompleterEnv({NameHe, NameHh}, d) : d \in SUBSET {NameHh, NameE}}

\* String::cmp on the names above
TextLess(a, b) ==
    \E i \in 1..Len(a) :
        /\ i <= Len(b)
        /\ SubSeq(a, 1, i - 1) = SubSeq(b, 1, i - 1)
        /\ a[i] = "e"
        /\ b[i] = "h"

TextLe(a, b) == starts_with(b, a) \/ TextLess(a, b)

\* sort_by text of the candidates found
Sorted(S) ==
    CHOOSE q \in [1..Cardinality(S) -> S] :
        \A i, j \in 1..Cardinality(S) : i < j => q[i] # q[j] /\ TextLe(q[i], q[j])

\* Completer::complete_command
complete_command(prefix, env) == Sorted({n \in env.commands : starts_with(n, prefix)})

\* Completer::complete_path for a prefix without separators
complete_path(prefix, env) == Sorted({n \in env.entries : starts_with(n, prefix)})

LastWord(words) == IF words = <<>> THEN <<>> ELSE words[Len(words)]

CompleteWords(inp, words, env) ==
    IF words = <<>> THEN <<>>
    ELSE IF Len(words) = 1 /\ inp[Len(inp)] # SP
         THEN complete_command(words[1], env)
    ELSE complete_path(IF inp[Len(inp)] = SP THEN <<>> ELSE LastWord(words), env)

\* Completer::complete
complete(inp, env) ==
    IF Trim(inp) = <<>> THEN <<>> ELSE CompleteWords(inp, split_whitespace(Trim(inp)), env)

\* the characters two texts share at their start
RECURSIVE CommonCount(_, _)
CommonCount(a, b) ==
    IF a = <<>> \/ b = <<>> \/ Head(a) # Head(b) THEN 0
    ELSE 1 + CommonCount(Tail(a), Tail(b))

\* Completer::common_prefix
common_prefix(comps) ==
    IF comps = <<>> THEN <<>>
    ELSE IF Len(comps) = 1 THEN comps[1]
    ELSE SubSeq(comps[1], 1,
                Min({Len(comps[1])}
                    \cup {CommonCount(comps[1], comps[i]) :
                            i \in 2..Len(comps)}))

Panicked(ed) == [ed EXCEPT !.panic = TRUE]

\* LineEditor::insert_char
insert_char(ed, c) ==
    [ed EXCEPT !.buffer = SubSeq(ed.buffer, 1, ed.cursor) \o <<c>>
                          \o SubSeq(ed.buffer, ed.cursor + 1, Len(ed.buffer)),
               !.cursor = ed.cursor + 1]

\* LineEditor::delete_char_backward
delete_char_backward(ed) ==
    IF ed.cursor = 0 THEN ed
    ELSE [ed EXCEPT !.buffer = SubSeq(ed.buffer, 1, ed.cursor - 1)
                               \o SubSeq(ed.buffer, ed.cursor + 1, Len(ed.buffer)),
                    !.cursor = ed.cursor - 1]

\* LineEditor::delete_char
delete_char(ed) ==
    IF ed.cursor >= Len(ed.buffer) THEN ed
    ELSE [ed EXCEPT !.buffer = SubSeq(ed.buffer, 1, ed.cursor)
                               \o SubSeq(ed.buffer, ed.cursor + 2, Len(ed.buffer))]

\* LineEditor::move_left
move_left(ed) == IF ed.cursor = 0 THEN ed ELSE [ed EXCEPT !.cursor = ed.cursor - 1]

\* move_right without the check against char_count
move_right_unchecked(ed) == [ed EXCEPT !.cursor = ed.cursor + 1]

\* LineEditor::move_right
move_right(ed) ==
    IF ed.cursor >= Len(ed.buffer) THEN ed ELSE [ed EXCEPT !.cursor = ed.cursor + 1]

\* LineEditor::move_to_start
move_to_start(ed) == [ed EXCEPT !.cursor = 0]

\* LineEditor::move_to_end: char_count - self.cursor is a subtraction of
\* usize, which panics below zero
move_to_end(ed) ==
    IF Len(ed.buffer) < ed.cursor THEN Panicked(ed)
    ELSE [ed EXCEPT !.cursor = Len(ed.buffer)]

\* LineEditor::delete_to_start
delete_to_start(ed) ==
    IF ed.cursor = 0 THEN ed
    ELSE [ed EXCEPT !.buffer = SubSeq(ed.buffer, ed.cursor + 1, Len(ed.buffer)),
                    !.cursor = 0]

\* LineEditor::delete_to_end
delete_to_end(ed) ==
    IF ed.cursor >= Len(ed.buffer) THEN ed
    ELSE [ed EXCEPT !.buffer = SubSeq(ed.buffer, 1, ed.cursor)]

\* before[..end].rfind(|c| c.is_whitespace()): the character index of the
\* last whitespace character, 0 for None
LastWhitespace(s) == Max({0} \cup {j \in 1..Len(s) : s[j] \in Whitespace})

\* .map(|i| i + 1).unwrap_or(0) on the byte index of that character
WordStart(before, j) == IF j = 0 THEN 0 ELSE ByteLen(SubSeq(before, 1, j - 1)) + 1

\* the buffer without before[start..], the cursor moved back by the
\* characters removed; before[start..] panics when start is inside a
\* character
WordDeleted(ed, starts) ==
    IF starts = {} THEN Panicked(ed)
    ELSE [ed EXCEPT !.buffer = SubSeq(ed.buffer, 1, CHOOSE k \in starts : TRUE)
                               \o SubSeq(ed.buffer, ed.cursor + 1, Len(ed.buffer)),
                    !.cursor = CHOOSE k \in starts : TRUE]

DeleteWordBefore(ed, before) ==
    WordDeleted(ed, CharsBefore(before, WordStart(before, LastWhitespace(TrimEnd(before)))))

\* LineEditor::delete_word_backward
delete_word_backward(ed) ==
    IF ed.cursor = 0 THEN ed ELSE DeleteWordBefore(ed, SubSeq(ed.buffer, 1, ed.cursor))

\* history_prev as a key of the read loop: the cursor goes to the end of the
\* entry shown
HistoryShown(ed, e) ==
    [ed EXCEPT !.buffer = e.buffer, !.history_index = e.history_index,
               !.saved_input = e.saved_input,
               !.cursor = IF e.history_index # ed.history_index
                          THEN Len(e.buffer) ELSE ed.cursor]

KeyHistoryPrev(ed, history) ==
    HistoryShown(ed, history_prev(Editor(ed.buffer, ed.history_index, ed.saved_input),
                                  history))

\* history_next as a key of the read loop
KeyHistoryNext(ed, history) ==
    IF ed.history_index < 0 THEN ed
    ELSE HistoryShown(ed, history_next(Editor(ed.buffer, ed.history_index, ed.saved_input),
                                       history))

\* LineEditor::get_completion_word
get_completion_word(buf) == LastWord(split_whitespace(buf))

\* self.buffer = format!("{}{}", &self.buffer[..word_start], full_completion)
\* and the cursor moved to the end; the slice panics when word_start is
\* inside a character
WordReplacedAt(ed, starts, full_completion) ==
    IF starts = {} THEN Panicked(ed)
    ELSE [ed EXCEPT !.buffer = SubSeq(ed.buffer, 1, CHOOSE k \in starts : TRUE)
                               \o full_completion,
                    !.cursor = (CHOOSE k \in starts : TRUE) + Len(full_completion)]

\* word_start = self.buffer.len() - current_word.len()
ReplaceWord(ed, full_completion) ==
    WordReplacedAt(ed,
                   CharsBefore(ed.buffer,
                               ByteLen(ed.buffer) - ByteLen(get_completion_word(ed.buffer))),
                   full_completion)

\* LineEditor::apply_completion_inline
apply_completion_inline(ed) ==
    IF ed.completions = <<>> THEN ed
    ELSE ReplaceWord(ed, ed.completions[ed.completion_index + 1])

\* LineEditor::apply_common_prefix_inline
apply_common_prefix_inline(ed, prefix) ==
    IF ByteLen(prefix) > ByteLen(get_completion_word(ed.buffer))
       /\ starts_with(prefix, get_completion_word(ed.buffer))
    THEN ReplaceWord(ed, prefix)
    ELSE ed

\* handle_tab in completion mode: the next candidate of the old list
TabCycle(ed) == ReplaceWord(ed, ed.completions[ed.completion_index + 1])

LeaveCompletion(ed) ==
    IF ed.panic THEN ed ELSE [ed EXCEPT !.in_completion = FALSE, !.completions = <<>>]

EnterCompletion(ed) == IF ed.panic THEN ed ELSE [ed EXCEPT !.in_completion = TRUE]

TabCommon(ed, common) ==
    EnterCompletion(IF ByteLen(common) > ByteLen(get_completion_word(ed.buffer))
                    THEN apply_common_prefix_inline(ed, common)
                    ELSE ed)

\* handle_tab with the fresh candidates in self.completions
TabFresh(ed) ==
    IF ed.completions = <<>> THEN [ed EXCEPT !.in_completion = FALSE]
    ELSE IF Len(ed.completions) = 1 THEN LeaveCompletion(apply_completion_inline(ed))
    ELSE TabCommon(ed, common_prefix(ed.completions))

\* LineEditor::handle_tab
handle_tab(ed, env) ==
    IF ed.in_completion /\ ed.completions # <<>>
    THEN TabCycle([ed EXCEPT !.completion_index =
                                 (ed.completion_index + 1) % Len(ed.completions)])
    ELSE TabFresh([ed EXCEPT !.completions = complete(ed.buffer, env),
                             !.completion_index = 0])

\* what one turn of a read loop did: the editor after it and how readline
\* goes on: "continue", "Line", "Interrupted", "Eof"
Turn(ed, result) == [ed |-> ed, result |-> result]

CtrlKeys == {"^C", "^D", "^A", "^W"}
PlainKeys == {"Enter", "Tab", "Backspace", "Left", "Up"}

\* the other keys the loops know, and ^X for a Ctrl key they do not
MoreCtrlKeys == {"^L", "^U", "^K", "^E", "^X"}
MorePlainKeys == {"Delete", "Right", "Down", "Home", "End"}

\* modifiers.contains(KeyModifiers::CONTROL): the match on code, then continue
CrosstermCtrl(ed, key) ==
    IF key = "^C" THEN Turn(ed, "Interrupted")
    ELSE IF key = "^D"
         THEN (IF ed.buffer = <<>> THEN Turn(ed, "Eof") ELSE Turn(delete_char(ed), "continue"))
    ELSE IF key = "^U" THEN Turn(delete_to_start(ed), "continue")
    ELSE IF key = "^K" THEN Turn(delete_to_end(ed), "continue")
    ELSE IF key = "^A" THEN Turn(move_to_start(ed), "continue")
    ELSE IF key = "^E" THEN Turn(move_to_end(ed), "continue")
    ELSE IF key = "^W" THEN Turn(delete_word_backward(ed), "continue")
    ELSE Turn(ed, "continue")

\* the second match on code
CrosstermPlain(ed, key, history, env) ==
    IF key = "Enter" THEN Turn(ed, "Line")
    ELSE IF key = "Tab" THEN Turn(handle_tab(ed, env), "continue")
    ELSE IF key = "Backspace" THEN Turn(delete_char_backward(ed), "continue")
    ELSE IF key = "Delete" THEN Turn(delete_char(ed), "continue")
    ELSE IF key = "Left" THEN Turn(move_left(ed), "continue")
    ELSE IF key = "Right" THEN Turn(move_right(ed), "continue")
    ELSE IF key = "Up" THEN Turn(KeyHistoryPrev(ed, history), "continue")
    ELSE IF key = "Down" THEN Turn(KeyHistoryNext(ed, history), "continue")
    ELSE IF key = "Home" THEN Turn(move_to_start(ed), "continue")
    ELSE IF key = "End" THEN Turn(move_to_end(ed), "continue")
    ELSE Turn(insert_char(ed, key), "continue")

\* read_loop_crossterm: one Event::Key of kind Press
crossterm_key(ed, key, history, env) ==
    IF key \in CtrlKeys \cup MoreCtrlKeys THEN CrosstermCtrl(ed, key)
    ELSE CrosstermPlain(IF key # "Tab"
                        THEN [ed EXCEPT !.in_completion = FALSE, !.completions = <<>>]
                        ELSE ed,
                        key, history, env)

\* the bytes stdin delivers to read_loop_raw: "EOF" is a read of no byte,
\* "DEL" is 0x7F, "[" "A" "D" end the escape sequences of Up and Left, NBSP
\* is its two bytes
ControlBytes == {"EOF", "ESC", "^C", "^D", "Tab", "Enter", "DEL", "^A", "^W"}
EscapeBytes == {"[", "A", "D"}

\* the other bytes read_loop_raw knows: ^E ^K ^U ^L, and the bytes that
\* with "3" for a digit make up the other escape sequences
MoreControlBytes == {"^E", "^K", "^U", "^L"}
MoreEscapeBytes == {"O", "B", "C", "H", "F", "3", "~"}

\* digits pushed to escape_params in one sequence
MaxParams == 1

NotIn(ed) == [ed EXCEPT !.in_completion = FALSE]

\* EscapeState::Normal
RawNormal(ed, byte, env) ==
    IF byte = "ESC"
    THEN Turn([ed EXCEPT !.escape_state = "Escape", !.escape_params = <<>>], "continue")
    ELSE IF byte = "^C" THEN Turn(ed, "Interrupted")
    ELSE IF byte = "^D"
         THEN (IF ed.buffer = <<>> THEN Turn(ed, "Eof") ELSE Turn(delete_char(ed), "continue"))
    ELSE IF byte = "Tab" THEN Turn(handle_tab(ed, env), "continue")
    ELSE IF byte = "Enter" THEN Turn(ed, "Line")
    ELSE IF byte = "DEL" THEN Turn(delete_char_backward(NotIn(ed)), "continue")
    ELSE IF byte = "^A" THEN Turn(move_to_start(ed), "continue")
    ELSE IF byte = "^E" THEN Turn(move_to_end(ed), "continue")
    ELSE IF byte = "^K" THEN Turn(delete_to_end(ed), "continue")
    ELSE IF byte = "^U" THEN Turn(delete_to_start(ed), "continue")
    ELSE IF byte = "^W" THEN Turn(delete_word_backward(ed), "continue")
    ELSE IF byte = "^L" THEN Turn(ed, "continue")
    ELSE Turn(insert_char(NotIn(ed), byte), "continue")

\* EscapeState::Escape
RawEscape(ed, byte) ==
    Turn([ed EXCEPT !.escape_state = IF byte \in {"[", "O"} THEN "Csi" ELSE "Normal"],
         "continue")

\* the sequence that ends with ~, by its parameters
RawTilde(ed) ==
    IF ed.escape_params \in {<<"1">>, <<"7">>} THEN move_to_start(ed)
    ELSE IF ed.escape_params \in {<<"4">>, <<"8">>} THEN move_to_end(ed)
    ELSE IF ed.escape_params = <<"3">> THEN delete_char(ed)
    ELSE ed

\* the editor back in EscapeState::Normal
Normal(ed) == [ed EXCEPT !.escape_state = "Normal"]

\* EscapeState::Csi | EscapeState::CsiParam
RawCsi(ed, byte, history) ==
    IF byte \in {"0", "1", "2", "3", "4", "5", "6", "7", "8", "9", ";"}
    THEN Turn([ed EXCEPT !.escape_params = Append(ed.escape_params, byte),
                         !.escape_state = "CsiParam"], "continue")
    ELSE IF byte = "A" THEN Turn(KeyHistoryPrev(NotIn(Normal(ed)), history), "continue")
    ELSE IF byte = "B" THEN Turn(KeyHistoryNext(NotIn(Normal(ed)), history), "continue")
    ELSE IF byte = "C" THEN Turn(move_right(Normal(ed)), "continue")
    ELSE IF byte = "D" THEN Turn(move_left(Normal(ed)), "continue")
    ELSE IF byte = "H" THEN Turn(move_to_start(Normal(ed)), "continue")
    ELSE IF byte = "F" THEN Turn(move_to_end(Normal(ed)), "continue")
    ELSE IF byte = "~" THEN Turn(RawTilde(Normal(ed)), "continue")
    ELSE Turn(Normal(ed), "continue")

\* read_loop_raw: one byte read
raw_byte(ed, byte, history, env) ==
    IF byte = "EOF" THEN Turn(ed, "Eof")
    ELSE IF ed.escape_state = "Normal" THEN RawNormal(ed, byte, env)
    ELSE IF ed.escape_state = "Escape" THEN RawEscape(ed, byte)
    ELSE RawCsi(ed, byte, history)

TheLine ==
    [buffer |-> buffer, cursor |-> cursor, history_index |-> history_index,
     saved_input |-> saved_input, completions |-> completions,
     completion_index |-> completion_index, in_completion |-> in_completion,
     escape_state |-> escape_state, escape_params |-> escape_params, panic |-> FALSE]

\* LineEditor::new() in a terminal in cooked mode, with each of the
\* histories and each of the completers
NewLineEditor(histories, envs) ==
    /\ ed_history \in histories
    /\ buffer = <<>>
    /\ cursor = 0
    /\ history_index = -1
    /\ saved_input = <<>>
    /\ last_key = Key("none", Editor(<<>>, -1, <<>>))
    /\ nav_from = <<>>
    /\ ups = 0
    /\ downs = 0
    /\ presses = 0
    /\ completions = <<>>
    /\ completion_index = 0
    /\ in_completion = FALSE
    /\ escape_state = "Normal"
    /\ escape_params = <<>>
    /\ raw_mode = FALSE
    /\ rpc = "new"
    /\ completer_env \in envs
    /\ key_log = NoKey

\* an empty history
InitLineEditor == NewLineEditor({<<>>}, CompleterEnvs)

LineBecomes(ed) ==
    /\ buffer' = ed.buffer
    /\ cursor' = ed.cursor
    /\ history_index' = ed.history_index
    /\ saved_input' = ed.saved_input
    /\ completions' = ed.completions
    /\ completion_index' = ed.completion_index
    /\ in_completion' = ed.in_completion
    /\ escape_state' = ed.escape_state
    /\ escape_params' = ed.escape_params

walkVars == <<ed_history, last_key, nav_from, ups, downs, presses>>

\* readline up to its read loop: the reset of the editor, then
\* enable_raw_mode, which succeeds or fails
Readline(raw_ok) ==
    /\ rpc \in {"new", "returned"}
    /\ LineBecomes(Line(<<>>, 0, -1, <<>>, <<>>, completion_index, FALSE, "Normal"))
    /\ raw_mode' = raw_ok
    /\ rpc' = IF raw_ok THEN "crossterm" ELSE "raw"
    /\ key_log' = NoKey
    /\ UNCHANGED <<walkVars, completer_env>>

\* a turn of a read loop and, when it returns, the rest of readline:
\* disable_raw_mode after read_loop_crossterm, nothing after read_loop_raw;
\* a panic unwinds through readline
TurnTaken(key, turn) ==
    /\ LineBecomes(turn.ed)
    /\ key_log' = KeyLog(key, IF turn.ed.panic THEN "panic" ELSE turn.result)
    /\ rpc' = IF turn.ed.panic THEN "panicked"
              ELSE IF turn.result = "continue" THEN rpc ELSE "returned"
    /\ raw_mode' = IF turn.ed.panic \/ turn.result = "continue" THEN raw_mode ELSE FALSE
    /\ UNCHANGED <<walkVars, completer_env>>

\* read_loop_crossterm: a key event, logged as name
CrosstermKeyAs(key, name) ==
    /\ rpc = "crossterm"
    /\ key \in KeyChars => Len(buffer) < MaxBuffer
    /\ TurnTaken(name, crossterm_key(TheLine, key, ed_history, completer_env))

CrosstermKey(key) == CrosstermKeyAs(key, key)

\* read_loop_raw: a byte read from stdin, logged as name
RawByteAs(byte, name) ==
    /\ rpc = "raw"
    /\ byte \in KeyChars => Len(buffer) < MaxBuffer
    /\ byte \in EscapeBytes \cup MoreEscapeBytes => escape_state # "Normal"
    /\ byte = "3" => Len(escape_params) < MaxParams
    /\ TurnTaken(name, raw_byte(TheLine, byte, ed_history, completer_env))

RawByte(byte) == RawByteAs(byte, byte)

\* event::poll, event::read, stdin.read or a write to stdout fails: the loop
\* returns the error with `?`
ReadLoopError ==
    /\ rpc \in {"crossterm", "raw"}
    /\ key_log' = KeyLog("error", "Err")
    /\ rpc' = "returned"
    /\ raw_mode' = FALSE
    /\ UNCHANGED <<walkVars, completer_env, buffer, cursor, history_index, saved_input,
                   completions, completion_index, in_completion, escape_state,
                   escape_params>>

NextReadline ==
    \/ \E raw_ok \in BOOLEAN : Readline(raw_ok) /\ UNCHANGED nonEditorVars
    \/ \E key \in CtrlKeys \cup PlainKeys \cup KeyChars :
           CrosstermKey(key) /\ UNCHANGED nonEditorVars
    \/ \E byte \in ControlBytes \cup EscapeBytes \cup KeyChars :
           RawByte(byte) /\ UNCHANGED nonEditorVars
    \/ ReadLoopError /\ UNCHANGED nonEditorVars

\* the characters typed, the history and the completer for the walk over
\* every key of the two read loops; the log keeps what each key made
\* readline do and not which key it was
EditChars == {"h", SP}
EditHistories == {<<NameHe, <<"h">>>>}
EditEnvs == {CompleterEnv({NameHe, NameHh}, {NameE})}

InitEditKeys == NewLineEditor(EditHistories, EditEnvs)

NextEditKeys ==
    \/ \E raw_ok \in BOOLEAN : Readline(raw_ok) /\ UNCHANGED nonEditorVars
    \/ \E key \in CtrlKeys \cup MoreCtrlKeys \cup PlainKeys \cup MorePlainKeys \cup EditChars :
           CrosstermKeyAs(key, "key") /\ UNCHANGED nonEditorVars
    \/ \E byte \in ControlBytes \cup MoreControlBytes \cup EscapeBytes \cup MoreEscapeBytes
                     \cup EditChars :
           RawByteAs(byte, "byte") /\ UNCHANGED nonEditorVars
    \/ ReadLoopError /\ UNCHANGED nonEditorVars

----------------------------------------------------------------------------
(* Specifications of the PTY manager *)

IsPrefix(p, s) == Len(p) <= Len(s) /\ SubSeq(s, 1, Len(p)) = p

\* PtySpawnConfig::default()
DefaultConfig == [shell_type |-> "PowerShell", working_directory |-> "None"]

Range(s) == {s[i] : i \in 1..Len(s)}

\* What a read may return after w has been read: any bytes that keep the
\* stream within one family and within MaxStreamLen in all, or the next bytes
\* of the example stream
ReaderChunks(w) ==
    UNION {IF Range(w) \subseteq F
           THEN UNION {[1..n -> F] : n \in 1..(MaxStreamLen - Len(w))}
           ELSE {} : F \in {EscAlphabet, Utf8Alphabet}}
    \cup (IF IsPrefix(w, ExampleStream)
          THEN {SubSeq(ExampleStream, Len(w) + 1, m) : m \in (Len(w) + 1)..Len(ExampleStream)}
          ELSE {})

\* The read loop of one session up to EOF: every stream and every way of
\* splitting it into reads
NextReader ==
    \/ Spawn(1, DefaultConfig) /\ UNCHANGED nonPtyVars
    \/ WorkerPoll(1) /\ UNCHANGED nonPtyVars
    \/ \E buf \in ReaderChunks(Written(1)) : WorkerReadData(1, buf) /\ UNCHANGED nonPtyVars
    \/ WorkerReadEof(1) /\ UNCHANGED nonPtyVars
    \/ ChildExit(1) /\ UNCHANGED nonPtyVars

\* PtyManager::new(), the History left aside
InitManager == InitPty /\ HistIdle /\ ParserIdle /\ ShellIdle /\ EnvIdle /\ EditorIdle

SpecReader == InitManager /\ [][NextReader]_vars

\* One session whose child writes, killed at any moment
NextKilledReader ==
    \/ NextReader
    \/ Kill(1) /\ UNCHANGED nonPtyVars

SpecKilledReader == InitManager /\ [][NextKilledReader]_vars

\* Several sessions whose children write nothing: every interleaving of the
\* manager's calls with the reader threads and the children's exits
NextMgr ==
    \/ \E id \in Ids : Spawn(id, ConfigFor(id)) /\ UNCHANGED nonPtyVars
    \/ SpawnFail /\ UNCHANGED nonPtyVars
    \/ \E id \in Ids, io_ok \in BOOLEAN : Write(id, io_ok) /\ UNCHANGED nonPtyVars
    \/ \E id \in Ids, io_ok \in BOOLEAN : Resize(id, io_ok) /\ UNCHANGED nonPtyVars
    \/ \E id \in Ids : Kill(id) /\ UNCHANGED nonPtyVars
    \/ \E id \in Ids : GetInfo(id) /\ UNCHANGED nonPtyVars
    \/ ListSessions /\ UNCHANGED nonPtyVars
    \/ KillAll /\ UNCHANGED nonPtyVars
    \/ DropManager /\ UNCHANGED nonPtyVars
    \/ \E id \in Ids : WorkerPoll(id) /\ UNCHANGED nonPtyVars
    \/ \E id \in Ids : WorkerReadEof(id) /\ UNCHANGED nonPtyVars
    \/ \E id \in Ids : WorkerReadWouldBlock(id) /\ UNCHANGED nonPtyVars
    \/ \E id \in Ids : WorkerReadErr(id) /\ UNCHANGED nonPtyVars
    \/ \E id \in Ids : WorkerExit(id, "Some(0)") /\ UNCHANGED nonPtyVars
    \/ \E id \in Ids : WorkerRemove(id) /\ UNCHANGED nonPtyVars
    \/ \E id \in Ids : ChildExit(id) /\ UNCHANGED nonPtyVars

SpecMgr == InitManager /\ [][NextMgr]_vars

\* The calls of several threads and the reader threads, lock by lock
SpecLocks == InitManager /\ [][NextLocks]_vars

\* One History from new() on, with or without a history file
InitShellHistory == InitPty /\ InitHistory /\ ParserIdle /\ ShellIdle /\ EnvIdle /\ EditorIdle

SpecHistory == InitShellHistory /\ [][NextHistory]_vars

\* One parse of each text
InitParse == InitPty /\ HistIdle /\ InitParser /\ ShellIdle /\ EnvIdle /\ EditorIdle

SpecParser == InitParse /\ [][NextParser]_vars

\* The shell run over each script
InitRun == InitPty /\ HistIdle /\ ParserIdle /\ InitShell /\ EnvIdle /\ EditorIdle

SpecShell == InitRun /\ [][NextShell]_vars

\* csh -c over each command string
InitDashC ==
    InitPty /\ HistIdle /\ ParserIdle /\ InitCommand /\ EnvIdle /\ EditorIdle

SpecCommand == InitDashC /\ [][NextCommand]_vars

\* csh <script> over each script file
InitFile ==
    InitPty /\ HistIdle /\ ParserIdle /\ InitScriptFile /\ EnvIdle /\ EditorIdle

SpecScript == InitFile /\ [][NextScript]_vars

\* One Environment from new() on, in each process environment
InitEnv == InitPty /\ HistIdle /\ ParserIdle /\ ShellIdle /\ InitEnvironment /\ EditorIdle

SpecEnvironment == InitEnv /\ [][NextEnvironment]_vars

\* One readline over each History
InitReadline == InitPty /\ HistIdle /\ ParserIdle /\ ShellIdle /\ EnvIdle /\ InitEditor

SpecEditor == InitReadline /\ [][NextEditor]_vars

\* Calls of readline on one LineEditor, key by key
InitKeys == InitPty /\ HistIdle /\ ParserIdle /\ ShellIdle /\ EnvIdle /\ InitLineEditor

SpecReadline == InitKeys /\ [][NextReadline]_vars

\* LineEditor::readline over every key, with a history that has entries
InitAllKeys == InitPty /\ HistIdle /\ ParserIdle /\ ShellIdle /\ EnvIdle /\ InitEditKeys

SpecEditKeys == InitAllKeys /\ [][NextEditKeys]_vars

----------------------------------------------------------------------------
(* Claims about the reader thread's output, checked under SpecReader *)

\* the payload emitted by the Ok(0) branch, when there is one, is the last one
IsEofFlush(id, i) ==
    ended[id] = "eof" /\ carryover[id] # <<>> /\ i = Len(outputs[id])

\* C1: when the bytes read form valid UTF-8 and the reader has reached EOF,
\* the payloads concatenated in emission order are exactly the bytes read;
\* until then the payloads followed by the carryover are exactly the bytes
\* read, so the carryover logic loses, repeats and reorders nothing.
C1_ConcatEqualsText ==
    \A id \in Ids :
        /\ ended[id] = "no" => Flatten(outputs[id]) \o carryover[id] = Written(id)
        /\ (ended[id] = "eof" /\ from_utf8(Written(id)).ok)
              => Flatten(outputs[id]) = Written(id)

\* a valid stream with U+2514 split across two reads and a trailing ESC has
\* reached EOF: one payload from the second read, one from the EOF flush
C1_Witness ==
    /\ reads[1] = << <<LeadE2, Cont94>>, <<Cont94, ESC>> >>
    /\ ended[1] = "eof"
    /\ outputs[1] = << <<LeadE2, Cont94, Cont94>>, <<ESC>> >>

\* C2: every payload of the Ok(n) branch, and the EOF flush of a valid
\* stream, is valid UTF-8 and is the very bytes read (whole characters, no
\* U+FFFD standing in for a split one); reads "A" E2 9C then 94 "B" give the
\* payloads "A" then U+2714 "B".
C2_WholeCharacters ==
    \A id \in Ids :
        /\ \A i \in 1..Len(outputs[id]) :
              /\ from_utf8(outputs[id][i]).ok
              /\ (~IsEofFlush(id, i) \/ from_utf8(Written(id)).ok)
                    => IsPrefix(Flatten(SubSeq(outputs[id], 1, i)), Written(id))
        /\ reads[id] = << <<65, 226, 156>>, <<148, 66>> >>
              => outputs[id] = << <<65>>, <<226, 156, 148, 66>> >>

\* the example's two reads have been processed, the first leaving E2 9C behind
C2_Witness ==
    /\ reads[1] = << <<65, 226, 156>>, <<148, 66>> >>
    /\ outputs[1] = << <<65>>, <<226, 156, 148, 66>> >>
    /\ carryover[1] = <<>>

\* The escape boundary rule as the claim states it: the last ESC of the text,
\* if any, introduces a complete sequence; ESC \ completes an OSC opened by an
\* earlier ESC ] that no BEL has closed.
EscapeComplete(p) ==
    LET pos == rfind(p, ESC)
        after == SliceFrom(p, pos)
        second == after[2]
    IN  \/ pos = NoneUsize
        \/ /\ Len(after) >= 2
           /\ \/ second = LBracket /\ \E i \in 3..Len(after) : IsCsiTerminator(after[i])
              \/ second = RBracket /\ ContainsByte(after, BEL)
              \/ /\ second = Backslash
                 /\ \E j \in 1..(pos - 1) :
                       /\ p[j] = ESC /\ p[j + 1] = RBracket
                       /\ \A k \in (j + 2)..pos : p[k] \notin {ESC, BEL}
              \/ is_ascii_alphabetic(second) \/ is_ascii_digit(second)
              \/ second \in {60, 61, 62}

\* C3: no payload, the EOF flush included, ends inside an escape sequence.
C3_NoPayloadEndsInEscape ==
    \A id \in Ids : \A i \in 1..Len(outputs[id]) : EscapeComplete(outputs[id][i])

----------------------------------------------------------------------------
(* Claims about the manager's calls, checked under SpecMgr *)

\* The reader threads are scheduled fairly.  Nothing makes a child write or
\* exit: kill() and kill_all() send it no signal, so ChildExit is not fair.
FairMgr ==
    /\ SpecMgr
    /\ \A id \in Ids :
          /\ WF_vars(WorkerPoll(id) /\ UNCHANGED nonPtyVars)
          /\ WF_vars(WorkerReadEof(id) /\ UNCHANGED nonPtyVars)
          /\ WF_vars(WorkerExit(id, "Some(0)") /\ UNCHANGED nonPtyVars)
          /\ WF_vars(WorkerRemove(id) /\ UNCHANGED nonPtyVars)

C5_KillRemovesOnlyThatSession ==
    /\ [](\A id \in Ids :
            should_stop[id] =>
                /\ id \notin DOMAIN sessions
                /\ id \notin list_sessions
                /\ get_info(id) = {})
    /\ [][\A id \in Ids :
            (id \in DOMAIN sessions /\ Kill(id)) =>
                /\ should_stop'[id]
                /\ DOMAIN sessions' = DOMAIN sessions \ {id}
                /\ \A o \in DOMAIN sessions \ {id} :
                      sessions'[o] = sessions[o] /\ should_stop'[o] = should_stop[o]]_vars

\* kill(1) has just returned while session 2 is still in the map
C5_Witness ==
    /\ ret = Ret("kill", 1, TRUE, {})
    /\ should_stop[1]
    /\ 1 \notin DOMAIN sessions
    /\ 2 \in DOMAIN sessions
    /\ ~should_stop[2]

\* C6: write, resize and kill with an id that is not in the map return an
\* error and leave the map as it was.
C6_UnknownIdIsError ==
    [][\A id \in Ids :
         (/\ id \notin DOMAIN sessions
          /\ ret' # ret
          /\ \/ Kill(id)
             \/ \E io_ok \in BOOLEAN : Write(id, io_ok)
             \/ \E io_ok \in BOOLEAN : Resize(id, io_ok))
            => (~ret'.ok /\ sessions' = sessions)]_vars

----------------------------------------------------------------------------
(* Claims about the History, checked under SpecHistory *)

\* a History call has just been made: the call's record or the cursor changed
HistCalled(op) == hret'.op = op /\ (hret' # hret \/ position' # position \/ entries' # entries)

\* C8: no stored entry is empty or begins with a space, no two neighbours
\* are equal, and an add() that is rejected changes neither entries nor cursor.
C8_EntriesInvariant ==
    /\ [](\A i \in 1..Len(entries) :
            /\ entries[i] # <<>>
            /\ entries[i][1] # SP
            /\ i > 1 => entries[i] # entries[i - 1])
    /\ [][\A command \in Commands :
            (Add(command) /\ AddRejects(command)) => UNCHANGED <<entries, position>>]_vars

\* the last n elements of a sequence
LastN(es, n) == IF Len(es) <= n THEN es ELSE SubSeq(es, Len(es) - n + 1, Len(es))

\* C9: len() never exceeds the capacity, and an accepted add() leaves the
\* most recent max_size of the commands held before followed by the new one.
C9_BoundedFifo ==
    /\ [](Len(entries) <= max_size)
    /\ [][\A command \in Commands :
            (Add(command) /\ ~AddRejects(command))
                => entries' = LastN(Append(entries, command), max_size)]_vars

\* C10: the cursor is always in 0..len(); previous() steps back and returns
\* the entry there, or returns None without moving at the oldest entry or in
\* an empty history; next() steps forward and returns the entry there, or
\* None when it arrives at or already is past the newest entry; an accepted
\* add() and reset_position() leave the cursor past the newest entry.
C10_CursorNavigation ==
    /\ [](position \in 0..Len(entries))
    /\ [][/\ HistCalled("previous") =>
               IF entries = <<>> \/ position = 0
               THEN hret'.value = None /\ position' = position
               ELSE position' = position - 1 /\ hret'.value = Some(entries[position])
          /\ HistCalled("next") =>
               IF position >= Len(entries)
               THEN hret'.value = None /\ position' = position
               ELSE /\ position' = position + 1
                    /\ hret'.value = IF position + 1 = Len(entries) THEN None
                                     ELSE Some(entries[position + 2])
          /\ (HistCalled("add") /\ entries' # entries) => position' = Len(entries')
          /\ HistCalled("reset_position") => position' = Len(entries')]_vars

\* previous() has stepped from past the newest entry of a full two-entry
\* history onto the newest entry
C10_Witness ==
    /\ entries = << <<"a">>, <<"b">> >>
    /\ position = 1
    /\ hret = HRet("previous", Some(<<"b">>))

----------------------------------------------------------------------------
(* Claims about the parser, checked under SpecParser *)

\* the operators written between pipelines: the consumed tokens that a
\* pipeline follows; a semicolon followed by another semicolon, or by the
\* end of the line, separates no pipelines
RECURSIVE OperatorsWritten(_)
OperatorsWritten(seen) ==
    IF Len(seen) < 2 THEN <<>>
    ELSE IF seen[2] = "Pipeline"
         THEN <<IF seen[1] = "Semicolon" THEN "Sequence" ELSE seen[1]>>
              \o OperatorsWritten(SliceFrom(seen, 2))
    ELSE OperatorsWritten(Tail(seen))

\* C11: a CommandLine returned by parse has no pipelines and no operators,
\* or one operator fewer than pipelines, and its operators are the ones
\* written between the pipelines, in order, for any mix of && || and ;
\* with trailing and repeated semicolons.
C11_OperatorsBetweenPipelines ==
    ppc = "ok" =>
        /\ \/ command_line.pipelines = <<>> /\ command_line.operators = <<>>
           \/ Len(command_line.operators) = Len(command_line.pipelines) - 1
        /\ command_line.operators = OperatorsWritten(seen_ops)

\* a line with two different operators and a trailing semicolon has parsed
C11_Witness ==
    /\ ppc = "ok"
    /\ Len(command_line.pipelines) = 2
    /\ command_line.operators = <<"Or">>
    /\ seen_ops = <<"Or", "Pipeline", "Semicolon", "Semicolon">>

----------------------------------------------------------------------------
(* Claims about the executor and the read-eval loop, checked under        *)
(* SpecShell                                                               *)

\* the pipeline the shell dealt with last
LastPipeline == cmd_line.pipelines[last_run.index]

\* status of the pipeline executed most recently before the last turn
StatusBefore == last_run.before[Len(last_run.before)].code

\* C12: pipeline i > 0 of a CommandLine is skipped exactly when
\* operators[i-1] is And and the status of the pipeline executed most
\* recently is non-zero, or it is Or and that status is zero; Sequence never
\* skips, the first pipeline is never skipped, and a skip changes neither
\* the carried status nor last_exit_code; `false && echo x || echo y` runs
\* false and echo y only and ends with last_exit_code 0.
C12_ShortCircuit ==
    /\ (last_run.kind \in {"skip", "run"} /\ last_run.index = 1)
          => last_run.kind = "run"
    /\ (last_run.kind \in {"skip", "run"} /\ last_run.index > 1)
          => /\ last_run.before # <<>>
             /\ last_run.kind = "skip"
                   <=> \/ /\ cmd_line.operators[last_run.index - 1] = "And"
                          /\ StatusBefore # 0
                       \/ /\ cmd_line.operators[last_run.index - 1] = "Or"
                          /\ StatusBefore = 0
    /\ last_run.kind = "skip"
          => /\ ran = last_run.before
             /\ last_status = StatusBefore
             /\ last_exit_code = last_run.code_before
    /\ (script.lines = <<ExampleLine>> /\ spc = "done")
          => /\ [i \in 1..Len(ran) |-> ran[i].index] = <<1, 3>>
             /\ last_run.result.calls = <<Call("builtin", EchoWord, << <<"y">> >>)>>
             /\ last_exit_code = 0

\* the example line has been executed: echo x skipped, echo y run
C12_Witness ==
    /\ script.lines = <<ExampleLine>>
    /\ spc = "done"
    /\ [i \in 1..Len(ran) |-> ran[i].index] = <<1, 3>>
    /\ last_exit_code = 0

\* Environment::get_value("?")
DollarQuestion == last_exit_code

\* C13: after each executed pipeline, and until the next one is executed,
\* $? is the exit code of that pipeline: 0 for true and echo, 1 for false,
\* 127 for a single command that could not be spawned.
C13_ExitCodeRecorded ==
    (last_run.kind = "run" /\ ~last_run.result.panic)
        => /\ DollarQuestion = last_run.result.code
           /\ last_run.result.calls = <<Call("builtin", FalseWord, <<>>)>>
                 => DollarQuestion = 1
           /\ last_run.result.calls \in {<<Call("builtin", TrueWord, <<>>)>>,
                                         <<Call("builtin", EchoWord, << <<"y">> >>)>>}
                 => DollarQuestion = 0
           /\ (Len(last_run.result.calls) = 1
               /\ last_run.result.calls[1].kind = "spawn failed")
                 => DollarQuestion = 127

\* an unknown command could not be spawned and the next pipeline of the line
\* is about to be executed
C13_Witness ==
    /\ last_run.kind = "run"
    /\ last_run.result.calls = <<Call("spawn failed", UnknownWord, <<>>)>>
    /\ spc = "exec"
    /\ idx <= Len(cmd_line.pipelines)
    /\ ~Skips(cmd_line.operators, idx, last_status)
    /\ DollarQuestion = 127

\* C14: a line that fails to lex or parse executes none of its commands,
\* leaves the shell reading the next line, and sets last_exit_code to 1.
C14_ParseErrorSetsOne ==
    last_run.kind = "parse_error"
        => /\ ran = <<>>
           /\ spc \in {"read", "done"}
           /\ last_exit_code = 1

\* C15: a pipeline whose background flag is set is never waited on and
\* records status 0 as last_exit_code, whether it has one command or several.
C15_BackgroundNotWaited ==
    (last_run.kind = "run" /\ LastPipeline.background)
        => /\ last_run.result.waited = 0
           /\ last_exit_code = 0

\* the content of f when the shell starts
FileBefore == IF script.file = NoFile THEN <<>> ELSE script.file

\* C16: after the same command has run twice with > f, f holds the output of
\* the second run alone; after it has run twice with >> f, f holds what it
\* held before followed by the output of the first and of the second run.
C16_RedirectTwice ==
    \A c \in RedirectCommands :
        /\ (spc = "done" /\ script.lines = <<c \o <<SP, ">", SP>> \o FileF,
                                             c \o <<SP, ">", SP>> \o FileF>>)
              => /\ Len(file_log) = 2
                 /\ files[FileF] = file_log[2]
        /\ (spc = "done" /\ script.lines = <<c \o <<SP, ">", ">", SP>> \o FileF,
                                             c \o <<SP, ">", ">", SP>> \o FileF>>)
              => /\ Len(file_log) = 2
                 /\ files[FileF] = FileBefore \o file_log[1] \o file_log[2]

\* a program has appended twice to a file that held a line, writing nothing
\* the first time
C16_Witness ==
    /\ spc = "done"
    /\ script.lines = <<ProgWord \o <<SP, ">", ">", SP>> \o FileF,
                        ProgWord \o <<SP, ">", ">", SP>> \o FileF>>
    /\ script.file = <<"p", NL>>
    /\ file_log = << <<>>, <<"o", NL>> >>
    /\ files[FileF] = <<"p", NL, "o", NL>>

----------------------------------------------------------------------------
(* Claim about aliases, checked under SpecShell *)

\* the value of the alias named as the command of the last pipeline
AliasValue == CHOOSE v \in expand_alias(aliases, LastPipeline.commands[1].name) : TRUE

\* a single command named by an alias with a value that is not empty
RanAlias ==
    /\ last_run.kind = "run"
    /\ Len(LastPipeline.commands) = 1
    /\ expand_alias(aliases, LastPipeline.commands[1].name) # {}
    /\ split_whitespace(AliasValue) # <<>>

\* how far the shell is: the line, then the turn of the loop of execute
Forward ==
    \/ line_no' > line_no
    \/ line_no' = line_no /\ spc = "read" /\ spc' # "read"
    \/ line_no' = line_no /\ spc = "exec" /\ spc' = "exec" /\ idx' > idx
    \/ line_no' = line_no /\ spc = "exec" /\ spc' = "panic"

AliasExpandedOnce ==
    /\ last_run.kind = "run" => last_run.result.expansions <= 1
    /\ RanAlias
          => /\ last_run.result.expansions = 1
             /\ Len(last_run.result.calls) = 1
             /\ last_run.result.calls[1].name = Head(split_whitespace(AliasValue))
             /\ last_run.result.calls[1].args
                   = Tail(split_whitespace(AliasValue)) \o LastPipeline.commands[1].args
    /\ line_no <= Len(script.lines) + 1
    /\ spc = "exec" => idx <= Len(cmd_line.pipelines) + 1

\* C19: an executed command is alias-expanded at most once: the command run
\* is the first token of the alias value, with the other tokens before the
\* original arguments, even when that first token names an alias; and every
\* step takes the shell forward through its script, so that it comes to the
\* end of it, self-referential and mutually referential aliases included.
C19_AliasOnce == []AliasExpandedOnce /\ [][Forward]_vars

\* ll, an alias of lm, has run with lm an alias of ll: lm was spawned
C19_Witness ==
    /\ RanAlias
    /\ aliases = {Alias(LlWord, LmWord), Alias(LmWord, LlWord \o <<SP, "b">>)}
    /\ LastPipeline.commands[1] = Command(LlWord, << <<"a">> >>)
    /\ last_run.result.calls[1].name = LmWord
    /\ last_run.result.calls[1].args = << <<"a">> >>
    /\ spc = "done"

----------------------------------------------------------------------------
(* Claims about the Environment, checked under SpecEnvironment *)

\* C17: in every state reachable from Environment::new by set, export, unset
\* and set_cwd, each pair of the exports map is in the process environment
\* with the same value, and after unset(name) the name is a key of neither
\* locals nor exports nor the process environment.
C17_ExportsInProcessEnv ==
    /\ \A name \in DOMAIN exported_vars :
          name \in DOMAIN process_env /\ process_env[name] = exported_vars[name]
    /\ eret.op = "unset"
          => eret.name \notin DOMAIN local_vars \cup DOMAIN exported_vars
                                  \cup DOMAIN process_env

\* C18: after any sequence of set, export and unset calls no name is a key
\* of both the locals map and the exports map.
C18_LocalsExportsDisjoint ==
    DOMAIN local_vars \cap DOMAIN exported_vars = {}

----------------------------------------------------------------------------
(* Claim about the line editor, checked under SpecEditor *)

\* C20: over any sequence of Up and Down keys the history index stays in
\* -1 .. len-1; Up at -1 saves the edit buffer and shows the newest entry;
\* Up at the oldest entry changes nothing; k Up keys from index -1 followed
\* by k Down keys leave index -1 and the buffer that was being edited.
C20_HistoryIndex ==
    /\ history_index \in -1..(Len(ed_history) - 1)
    /\ (last_key.key = "Up" /\ last_key.before.history_index = -1 /\ ed_history # <<>>)
          => /\ saved_input = last_key.before.buffer
             /\ buffer = ed_history[Len(ed_history)]
             /\ history_index = 0
    /\ (last_key.key = "Up" /\ last_key.before.history_index = Len(ed_history) - 1)
          => /\ buffer = last_key.before.buffer
             /\ history_index = last_key.before.history_index
    /\ (ups >= 1 /\ downs = ups)
          => /\ history_index = -1
             /\ buffer = nav_from

\* three Up keys over two entries, then three Down keys, with "c" typed
\* before them
C20_Witness ==
    /\ Len(ed_history) = 2
    /\ ups = 3
    /\ downs = 3
    /\ nav_from = <<"c">>
    /\ buffer = <<"c">>
    /\ history_index = -1

----------------------------------------------------------------------------
(* Claims about the keys of readline, checked under SpecReadline *)

\* a step of a read loop that handled the whole key `key` and went on
KeyHandled(key) ==
    /\ rpc \in {"crossterm", "raw"}
    /\ escape_state = "Normal"
    /\ key_log'.key = key

\* the characters kept to the left of the cursor by Ctrl-W: those up to and
\* with the last whitespace character before the word
KeptBefore(before) == LastWhitespace(TrimEnd(before))

\* C21: Ctrl-W with the cursor after at least one character skips the
\* whitespace left of the cursor, deletes back to just after the whitespace
\* character before that (or to the start of the line), keeps the text right
\* of the cursor and puts the cursor where the deleted span began; the read
\* loop goes on.
C21_CtrlWDeletesWord ==
    [][KeyHandled("^W") /\ cursor > 0
        => /\ rpc' = rpc
           /\ buffer' = SubSeq(buffer, 1, KeptBefore(SubSeq(buffer, 1, cursor)))
                        \o SubSeq(buffer, cursor + 1, Len(buffer))
           /\ cursor' = KeptBefore(SubSeq(buffer, 1, cursor))]_vars

\* C22: in a read loop, a key other than Tab leaves the editor out of
\* completion mode, so that the next Tab asks the completer again.
C22_NonTabLeavesCompletion ==
    [][(\E key \in (CtrlKeys \cup PlainKeys \cup ControlBytes \cup KeyChars)
                   \ {"Tab", "ESC"} : KeyHandled(key))
       /\ rpc' = rpc
        => ~in_completion']_vars

\* a word followed by one space
WordThenSpace(buf) ==
    /\ Len(buf) >= 2
    /\ buf[Len(buf)] = SP
    /\ \A i \in 1..(Len(buf) - 1) : buf[i] \notin Whitespace

\* C23: Tab pressed when the buffer is a word followed by a space leaves the
\* buffer as it was, whatever the completer finds.
C23_TabAfterSpaceKeepsInput ==
    [][KeyHandled("Tab") /\ WordThenSpace(buffer) => buffer' = buffer /\ rpc' = rpc]_vars

\* C24: when control has left readline, by a return or by a panic, the
\* terminal is not in raw mode.
C24_RawModeReleased == rpc \in {"returned", "panicked"} => ~raw_mode

----------------------------------------------------------------------------
(* Claims about main with -c and with a script, checked under SpecCommand  *)
(* and SpecScript                                                          *)

\* C25: when csh -c has run its command string, the code main returns is the
\* status of the last line of the string that was run.
C25_ExitsWithCommandStatus ==
    (mode = "-c" /\ spc = "done") => exit_status = {line_status}

\* the command lines of the logical lines of the script
LogicalCommandLines ==
    {parse(load_script(script.lines)[i]).command_line :
        i \in 1..Len(load_script(script.lines))}

\* C26: every command line a script run hands to the executor is the parse
\* of a logical line of the file, a line that ends with a backslash being
\* joined with the line after it.
C26_ContinuationJoined ==
    (mode = "script" /\ spc = "exec") => cmd_line \in LogicalCommandLines


\* the step of parse_command_line taken at a Semicolon, judged by the token
\* that follows the Semicolon
EndsAfterSemicolon(after) ==
    IF ~after.ok THEN TRUE
    ELSE IF after.tok.type \in {"Newline", "Eof"}
         THEN command_line' = command_line
    ELSE IF after.tok.type \in {"Word", "QuotedString"}
         THEN \/ ppc' = "err"
              \/ /\ Len(command_line'.pipelines) = Len(command_line.pipelines) + 1
                 /\ command_line'.operators = Append(command_line.operators, "Sequence")
    ELSE TRUE

\* C27: after a ';' that a newline or the end of input follows no pipeline
\* is added to the CommandLine; after a ';' that a word follows exactly one
\* pipeline is added, with the operator Sequence
C27_SemicolonThenNewlineEnds ==
    [][ppc = "loop" /\ LoopToken.ok /\ LoopToken.tok.type = "Semicolon"
       => EndsAfterSemicolon(peek(next_token(TheLexer).lexer))]_vars

RECURSIVE Occurrences(_, _)
Occurrences(s, c) ==
    IF s = <<>> THEN 0
    ELSE (IF Head(s) = c THEN 1 ELSE 0) + Occurrences(Tail(s), c)

\* a '<' is written behind a '|'
StdinAfterPipe(s) ==
    \E i, j \in 1..Len(s) : i < j /\ s[i] = "|" /\ s[j] = "<"

\* C28: of a text that is one pipeline, every '>' redirect written on any
\* command is in stdout_redirects of the parsed pipeline, a '<' written on
\* the first command gives its stdin_redirect, and a '<' written behind a
\* '|' is a parse error
C28_RedirectsCollected ==
    [][ppc = "start" /\ input \in RedirectedTexts
       => /\ StdinAfterPipe(input) => ppc' = "err"
          /\ ppc' = "loop" =>
               /\ Len(command_line'.pipelines[1].stdout_redirects)
                    = Occurrences(input, ">")
               /\ Occurrences(input, "<") > 0 =>
                    command_line'.pipelines[1].stdin_redirect # {}]_vars


\* the children of the last pipeline: the calls of spawn that returned Ok
SpawnedChildren ==
    {i \in 1..Len(last_run.result.calls) : last_run.result.calls[i].kind = "spawn"}

\* C29: when the executor returns from a pipeline that is not a background
\* one, child.wait() was called once for every child it spawned, also when
\* a later command of the pipe chain failed to spawn
C29_ChildrenWaited ==
    (last_run.kind = "run" /\ ~last_run.result.panic /\ ~LastPipeline.background)
        => last_run.result.waited = Cardinality(SpawnedChildren)


----------------------------------------------------------------------------
(* Claim about the locks of the manager, checked under SpecLocks *)

Threads == {Caller(c) : c \in Callers} \cup {Worker(id) : id \in Ids}

\* the holder of the Mutex a thread has asked for and not got, {} when it
\* waits for none
WaitsFor(t) ==
    IF t[1] = "caller"
    THEN IF call[t[2]].pc = "lock_map" THEN {map_lock} \ {Free}
         ELSE IF call[t[2]].pc = "lock_stop" THEN {stop_lock[call[t[2]].pty_id]} \ {Free}
         ELSE {}
    ELSE IF wpc[t[2]] = "loop" /\ stop_lock[t[2]] # t THEN {stop_lock[t[2]]} \ {Free}
         ELSE IF wpc[t[2]] = "remove" /\ map_lock # t THEN {map_lock} \ {Free}
         ELSE {}

\* every thread of T waits for a Mutex that a thread of T holds
Deadlocked(T) == T # {} /\ \A t \in T : WaitsFor(t) # {} /\ WaitsFor(t) \subseteq T

----------------------------------------------------------------------------
(* Claims about every key of the read loops, checked under SpecEditKeys *)

\* C31: the cursor is a character index into the buffer, from 0 to the
\* number of its characters, after any keys of either read loop
C31_CursorInBuffer == 0 <= cursor /\ cursor <= Len(buffer)

\* the cursor stands inside a line of three characters that came from the
\* history and was edited
C31_Witness ==
    /\ rpc \in {"crossterm", "raw"}
    /\ Len(buffer) = 3
    /\ cursor = 1
    /\ history_index = 0


----------------------------------------------------------------------------
(* Claim about the bytes of read_loop_raw, checked under SpecReadline *)

\* C36: in read_loop_raw the byte of Ctrl-C ends readline with Interrupted
\* and the byte of Enter ends it with Line, in whatever state the escape
\* parser is when the byte arrives
C36_InterruptInAnyState ==
    [][rpc = "raw"
       => /\ key_log'.key = "^C" => key_log'.result = "Interrupted" /\ rpc' = "returned"
          /\ key_log'.key = "Enter" => key_log'.result = "Line" /\ rpc' = "returned"]_vars


----------------------------------------------------------------------------
(* Claim about a killed session's output, checked under SpecKilledReader *)

\* C32: once kill has set the stop flag of a session, a pty-output is
\* emitted for it only by a reader thread that had passed the poll, one
\* payload by that one read, and a reader thread that is not past the poll
\* never reads again: it leaves the loop without emitting its carryover
C32_OneOutputAfterKill ==
    [][\A id \in Ids :
          should_stop[id] =>
             /\ outputs'[id] # outputs[id] =>
                   /\ wpc[id] = "read"
                   /\ wpc'[id] \in {"loop", "wait"}
                   /\ Len(outputs'[id]) = Len(outputs[id]) + 1
             /\ wpc[id] # "read" => wpc'[id] # "read"]_vars

\* the reader thread has left the loop on the stop flag after emitting a
\* payload, with bytes still in its carryover
C32_Witness ==
    /\ should_stop[1]
    /\ ended[1] = "stop"
    /\ outputs[1] # <<>>
    /\ carryover[1] # <<>>


----------------------------------------------------------------------------
(* Claims about aliases and pipelines, checked under SpecShell *)

\* C33: a command whose name is an alias stored by the alias built-in, the
\* empty and the all-whitespace value included, completes with an exit
\* status: the shell does not panic on the alias value
C33_AliasValueRuns ==
    /\ spc # "panic"
    /\ (last_run.kind = "run" /\ Len(LastPipeline.commands) = 1
           /\ expand_alias(aliases, LastPipeline.commands[1].name) # {})
          => last_run.result.code \in 0..127


----------------------------------------------------------------------------
(* Claims about export and cd, checked under SpecEnvironment *)

\* C34: export(name) without a value on a name that is in the exports map
\* and has no local value leaves the value of name in the exports map and
\* in the process environment as it was
C34_ExportIdempotent ==
    [][\A name \in EnvNames :
          (/\ name \in DOMAIN exported_vars
           /\ name \in DOMAIN process_env
           /\ name \notin DOMAIN local_vars
           /\ EnvExport(name, {}))
          => /\ exported_vars'[name] = exported_vars[name]
             /\ process_env'[name] = process_env[name]]_vars


\* the value of name in a map, {} when it has none
ValueIn(map, name) == IF name \in DOMAIN map THEN {map[name]} ELSE {}

\* C37: a cd that succeeds leaves OLDPWD the previous cwd and cwd, the
\* process working directory and PWD the new directory; a cd that returns
\* a failure leaves cwd, the process working directory, PWD and OLDPWD as
\* they were
C37_CdAtomic ==
    [][/\ eret'.op = "cd"
          => /\ ValueIn(exported_vars', "OLDPWD") = {cwd}
             /\ process_cwd' = cwd'
             /\ ValueIn(exported_vars', "PWD") = {cwd'}
             /\ ValueIn(process_env', "PWD") = {cwd'}
       /\ eret'.op = "cd failed"
          => /\ cwd' = cwd
             /\ process_cwd' = process_cwd
             /\ ValueIn(exported_vars', "PWD") = ValueIn(exported_vars, "PWD")
             /\ ValueIn(process_env', "PWD") = ValueIn(process_env, "PWD")
             /\ ValueIn(exported_vars', "OLDPWD") = ValueIn(exported_vars, "OLDPWD")
             /\ ValueIn(process_env', "OLDPWD") = ValueIn(process_env, "OLDPWD")]_vars


----------------------------------------------------------------------------
(* Claim about what the reader thread carries over, checked under SpecReader *)

\* the text s holds an 'A' right behind the two bytes ESC \
TextBehindTerminator(s) ==
    \E i \in 3..Len(s) : s[i - 2] = ESC /\ s[i - 1] = Backslash /\ s[i] = LetterA

\* the text s holds an 'A' right behind a continuation byte no character
\* begins before
TextBehindInvalidByte(s) ==
    Len(s) >= 2 /\ s[1] = Cont94 /\ s[2] = LetterA

\* C35: the reader thread does not keep ordinary text back: once a read is
\* processed, the carryover holds no text that follows the ESC \ terminator
\* or an invalid byte; such text is emitted by the read that delivers it
C35_TextNotWithheld ==
    \A id \in Ids :
        /\ ~TextBehindTerminator(carryover[id])
        /\ ~TextBehindInvalidByte(carryover[id])


----------------------------------------------------------------------------
(* Claim about sessions that have exited, checked under SpecMgr *)

\* C38: once the pty-exit event of a session has been emitted, get_info of
\* its id returns no PtyInfo and list_sessions does not contain the id
C38_ExitedNotReported ==
    [][\A id \in Ids :
          exits[id] # <<>>
          => /\ GetInfo(id) => ret'.value = {}
             /\ ListSessions => id \notin ret'.value]_vars


----------------------------------------------------------------------------
(* Claim about the commands of a pipe chain, checked under SpecShell *)

\* the call that running cmd alone makes: its name and arguments after the
\* alias check, as a built-in when the name is one
ResolvedAlone(cmd, made) ==
    LET final == AliasFinal(aliases, expand_alias(aliases, cmd.name), cmd.name, cmd.args)
    IN  /\ made.name = final.name
        /\ made.args = final.args
        /\ made.kind = "builtin" <=> final.name \in BuiltinNames

\* C39: each command of a pipeline of several commands is resolved as it is
\* when it stands alone: replaced by its alias if it has one, run as the
\* built-in of that name if there is one, and only otherwise spawned
C39_SameResolutionInPipeline ==
    (last_run.kind = "run" /\ ~last_run.result.panic /\ Len(LastPipeline.commands) > 1)
    => \A i \in 1..Len(last_run.result.calls) :
          IF AliasPanics(expand_alias(aliases, LastPipeline.commands[i].name)) THEN TRUE
          ELSE ResolvedAlone(LastPipeline.commands[i], last_run.result.calls[i])


----------------------------------------------------------------------------
(* Claim about quoted text, checked under SpecShell *)

\* the line that was run
LastLine == Trim(script.lines[last_run.line])

\* texts that name a variable or the home directory
LiteralTexts == {<<DOLLAR, "?">>, <<DOLLAR, "A">>, <<"~">>}

\* C40: text written in single quotes, and a $ written as \$ in double
\* quotes, is the argument the command gets, character for character: no
\* variable value and no home directory is put in its place
C40_QuotedTextLiteral ==
    \A text \in LiteralTexts :
        (/\ last_run.kind = "run"
         /\ \/ LastLine = EchoWord \o <<SP, QUOTE>> \o text \o <<QUOTE>>
            \/ /\ Head(text) = DOLLAR
               /\ LastLine = EchoWord \o <<SP, DQUOTE, BSL>> \o text \o <<DQUOTE>>)
        => last_run.result.calls[1].args = <<text>>

====
